---- MODULE Spec2Model ----
(***************************************************************************)
(* The bridge of react-native-live-context: the connection manager         *)
(* (WebSocketServer) and the request correlator (MessageHandler) that sits *)
(* on top of it.  One action per event-loop callback: a callback runs to   *)
(* completion, together with the promise continuations it releases,        *)
(* before the next event is taken.                                         *)
(*                                                                         *)
(* Spec     the bridge: MessageHandler listening to WebSocketServer.  The  *)
(*          clock readings behind lastHeartbeat are left open there: the   *)
(*          heartbeat callback may find any tracked connection expired.    *)
(* SpecConn WebSocketServer alone, with the clock readings kept, and the    *)
(*          start and stop of the bridge.  SpecConnLive adds that a socket *)
(*          the server has closed gets its close event.                    *)
(* SpecCache  the response caches of the bridge: ScreenshotService and      *)
(*          ContextService, with the correlator behind them reduced to a   *)
(*          fetch that later succeeds or fails.                            *)
(* SpecClient the device transport (WebSocketClient) with the sockets it   *)
(*          has made, each with its own handlers and connect timeout.      *)
(* SpecDiscovery  ServiceDiscovery.discoverServer on the device, with the  *)
(*          time it takes, under every configuration and with every set of *)
(*          strategies whose candidates answer.                            *)
(* SpecDevice  LiveContextProvider on the device: the handlers registered   *)
(*          with the transport and the requests it answers, over a         *)
(*          transport reduced to its one current socket.                   *)
(***************************************************************************)
EXTENDS Integers, Sequences, FiniteSets, TLC

\* ---------------------------------------------------------------- bounds
MaxReq == 2              \* requests issued in one run
HeartbeatInterval == 1   \* config.websocket.heartbeatInterval, in clock ticks
MaxNow == 3              \* the last reading of the cache clock
MaxFetch == 2            \* fetches followed to their response in one run
MaxSockets == 3          \* sockets the device transport makes in one run
MaxCandidates == 2       \* candidates a discovery strategy probes

\* ------------------------------------------------- configuration, scaled
MaxScreenshots == 1      \* config.cache.maxScreenshots
SnapshotMaxAge == 2      \* the 30000 ms ceiling of the context TTL, in ticks
MaxInteractions == 2     \* the 50 interactions trackInteraction keeps
MaxAges == {1, 3}        \* config.cache.maxAge, in ticks: below and above
                         \* the ceiling
MaxReconnectAttempts == 2  \* config.retryAttempts
MaxQueueSize == 2        \* WebSocketClient.maxQueueSize (100)
ProbeTimeout == 3        \* the 3000 ms a discovery probe may take, in seconds
Budgets == {1, 5}        \* config.discoveryTimeout, in seconds: below the
                         \* probe timeout, and the default

Clients == {"c1", "c2"}  \* the connection ids generateClientId hands out
Ids == {"id1", "id2"}    \* the envelope ids on the wire
NoId == "-"
NoClient == "-"

\* ------------------------------------------------------------ wire types
RequestTypes == {"screenshot_request", "context_request"}
ResponseTypes == {"screenshot_response", "context_response"}
UnknownType == "unknown-type"

\* The types setupDefaultProcessors registers a processor for.
Processors == RequestTypes \cup ResponseTypes \cup {"command", "error"}

\* The decoded inbound envelopes.  dataOrig is data.originalRequestId and
\* errOrig is error.details.originalRequestId (NoId when absent).
Envelopes ==
  [type : RequestTypes \cup ResponseTypes \cup {"error"},
   id : Ids, dataOrig : {NoId}, errOrig : {NoId}]
  \cup [type : {"command", "heartbeat", UnknownType},
        id : {"id1"}, dataOrig : {NoId}, errOrig : {NoId}]
  \cup {[type |-> "screenshot_response", id |-> "id1", dataOrig |-> "id2", errOrig |-> NoId],
        [type |-> "screenshot_response", id |-> "id2", dataOrig |-> "id1", errOrig |-> NoId]}
  \cup [type : {"error"}, id : {"id1"}, dataOrig : Ids, errOrig : {NoId}]
  \cup [type : {"error"}, id : {"id1"}, dataOrig : {NoId}, errOrig : Ids]

VARIABLES
  clients,          \* WebSocketServer.clients: tracked ids, in insertion order
  socket,           \* readyState of the socket of each connection id
  age,              \* Date.now() - connection.lastHeartbeat, per connection
  beatDue,          \* the heartbeat interval timer is due
  sinceBeat,        \* clock ticks since the interval timer last became due
  requests,         \* the promises made by sendRequestAndWaitForResponse
  pendingRequests,  \* MessageHandler.pendingRequests: id -> index in requests
  out               \* what the last callback sent, emitted and returned

vars ==
  <<clients, socket, age, beatDue, sinceBeat, requests, pendingRequests, out>>

connVars == <<clients, socket, age, beatDue, sinceBeat>>

VARIABLES
  now,              \* Date.now() as the two services read it
  maxAge,           \* config.cache.maxAge
  shots,            \* ScreenshotService.cache, in Map (insertion) order
  contexts,         \* ContextService.cache, in Map (insertion) order
  calls,            \* the messageHandler.request... calls a service awaits
  fetched,          \* the number of such calls made so far
  completed,        \* the first frame a requestScreenshot call fetched
  cout,             \* what the last service call or callback did
  service           \* the service a run of the caches drives

cacheVars ==
  <<now, maxAge, shots, contexts, calls, fetched, completed, cout, service>>

VARIABLES
  sockets,            \* the WebSocket objects WebSocketClient has made
  ws,                 \* WebSocketClient.ws: a place in sockets, 0 for null
  isConnecting,       \* WebSocketClient.isConnecting
  reconnectAttempts,  \* WebSocketClient.reconnectAttempts
  reconnectTimeout,   \* the timer WebSocketClient.reconnectTimeout refers to
  staleReconnects,    \* scheduled reconnect timers no field refers to any more
  heartbeatInterval,  \* WebSocketClient.heartbeatInterval is set
  staleHeartbeats,    \* running heartbeat intervals no field refers to any more
  messageQueue,       \* WebSocketClient.messageQueue
  tout,               \* what the last transport call or callback did
  history             \* what has happened: the reconnects scheduled since the
                      \* last open (.sinceOpen) and since the last open or
                      \* disconnect (.sinceReset); disconnect() was called
                      \* and connect() not since (.disconnected)

clientVars ==
  <<sockets, ws, isConnecting, reconnectAttempts, reconnectTimeout,
    staleReconnects, heartbeatInterval, staleHeartbeats, messageQueue, tout,
    history>>

VARIABLES
  discovery           \* a call of ServiceDiscovery.discoverServer: its
                      \* configuration, the strategies whose candidates
                      \* answer, the time since it started and where it is

VARIABLES
  device              \* LiveContextProvider and its transport: the socket,
                      \* the reconnect timer, the React state isConnected, the
                      \* handlers registered and the requests being handled

VARIABLES
  server              \* AIScreenshotServer: isRunning, a stop() that awaits
                      \* the close of the listening server, whether
                      \* connections are accepted, and the interval timers
                      \* of WebSocketServer and of the two services

\* ------------------------------------------------------------- helpers
Range(s) == {s[i] : i \in 1..Len(s)}

Remove(s, x) == SelectSeq(s, LAMBDA y : y # x)

Min(a, b) == IF a < b THEN a ELSE b

Msg(to, type, code) == [to |-> to, type |-> type, code |-> code]

\* sent: the frames written; emitted: the events emitted; settled: the
\* outcomes given to the promises settled; result: what an API call returned.
Out(sent, emitted, settled, result) ==
  [sent |-> sent, emitted |-> emitted, settled |-> settled, result |-> result]

NoOut == Out(<<>>, <<>>, <<>>, "none")

\* this.emit(ev, c, ...)
Emit(ev, c) == <<[ev |-> ev, c |-> c]>>

\* --------------------------------------------------- WebSocketServer parts
Tracked(c) == c \in Range(clients)

\* WebSocketServer.sendToClient: true iff the id is tracked and its socket OPEN.
SendToClient(c) == Tracked(c) /\ socket[c] = "open"

\* The frames one sendToClient call writes.
Send(c, type, code) ==
  IF SendToClient(c) THEN <<Msg(c, type, code)>> ELSE <<>>

HeartbeatTimeout == HeartbeatInterval * 2

\* Variant of HeartbeatExpired that already gives up a connection at the
\* timeout itself (>= for >).
HeartbeatExpiredAtTimeout(c) == age[c] >= HeartbeatTimeout

\* now - connection.lastHeartbeat > timeout
HeartbeatExpired(c) == age[c] > HeartbeatTimeout

\* -------------------------------------------------- MessageHandler parts
\* What is left of a promise once it is settled and its timer cleared.
Settled ==
  [id |-> NoId, clientId |-> NoClient, fwd |-> FALSE, armed |-> FALSE,
   outcome |-> "settled"]

\* Of a request that timed out the id stays known: it is the id a late
\* response carries.
Forget(r) ==
  IF r.outcome = "pending" \/ r.armed THEN r
  ELSE IF r.outcome = "Timeout" THEN [Settled EXCEPT !.id = r.id, !.outcome = "Timeout"]
  ELSE Settled

\* The promise and timer made by one sendRequestAndWaitForResponse call.
\* armed: the setTimeout(..., timeout) is scheduled and not cleared.
\* sent tells whether sendToClient returned true; on false the timer is
\* cleared and the promise rejected before the call returns.
NewRequest(c, id, fwd, sent) ==
  Forget([id |-> id, clientId |-> c, fwd |-> fwd,
          armed |-> sent,
          outcome |-> IF sent THEN "pending" ELSE "SendFailed"])

\* Variant of TableAfterIssue without the delete(requestId) on a failed send.
TableKeepsEntry(id, idx, sent) == [pendingRequests EXCEPT ![id] = idx]

\* pendingRequests after the set(requestId, ...) and, on a failed send, the
\* delete(requestId) that follows it.
TableAfterIssue(id, idx, sent) ==
  [pendingRequests EXCEPT ![id] = IF sent THEN idx ELSE 0]

SendRequestAndWaitForResponse(c, id, fwd) ==
  /\ Len(requests) < MaxReq
  /\ requests' = Append(requests, NewRequest(c, id, fwd, SendToClient(c)))
  /\ pendingRequests' = TableAfterIssue(id, Len(requests) + 1, SendToClient(c))

\* The rejection a request to c meets at once when sendToClient returns false.
SendOutcome(c) == IF SendToClient(c) THEN <<>> ELSE <<"SendFailed">>

\* clearTimeout(timeout), and equally a timer that has fired.
ClearTimeout(r) == [r EXCEPT !.armed = FALSE]

\* resolve()/reject() of a promise: only a pending promise changes.
Settle(r, outcome) ==
  [r EXCEPT !.outcome = IF r.outcome = "pending" THEN outcome ELSE @]

FindOriginalRequestId(env) ==
  IF env.dataOrig # NoId THEN env.dataOrig
  ELSE IF env.type \in ResponseTypes THEN env.id
  ELSE IF env.type = "error" /\ env.errOrig # NoId THEN env.errOrig
  ELSE NoId

\* The entry handleResponse resolves: 0 when the envelope names no request
\* or the table holds nothing under the name.
ResolvedIndex(env) ==
  IF FindOriginalRequestId(env) = NoId THEN 0
  ELSE pendingRequests[FindOriginalRequestId(env)]

\* What settling request r now gives its promise: nothing unless it is pending.
Outcome(r, outcome) == IF r.outcome = "pending" THEN <<outcome>> ELSE <<>>

\* What the awaiting processor of a forwarded request sends once the promise
\* of request r settles: the response itself, or an ERROR envelope whose code
\* is SCREENSHOT_FAILED or CONTEXT_FAILED (written REQUEST_FAILED here).
Continuation(r, type, code) ==
  IF r.fwd /\ r.outcome = "pending" THEN Send(r.clientId, type, code) ELSE <<>>

HandleResponse(c, env) ==
  LET idx == ResolvedIndex(env) IN
  IF idx = 0
  THEN /\ UNCHANGED <<requests, pendingRequests>>
       /\ out' = Out(<<>>, Emit("message", c), <<>>, "none")
  ELSE /\ requests' = [requests EXCEPT
                         ![idx] = Forget(ClearTimeout(Settle(@, "Resolved")))]
       /\ pendingRequests' =
            [pendingRequests EXCEPT ![FindOriginalRequestId(env)] = 0]
       /\ out' = Out(Continuation(requests[idx], env.type, "-"),
                     Emit("message", c), Outcome(requests[idx], "Resolved"), "none")

\* The table entries handleClientDisconnected collects for client c.
OwnedBy(c) ==
  {i \in Ids : pendingRequests[i] # 0 /\ requests[pendingRequests[i]].clientId = c}

HandleClientDisconnected(c) ==
  LET toRemove == OwnedBy(c)
      hit == {pendingRequests[i] : i \in toRemove}
  IN /\ requests' = [k \in DOMAIN requests |->
                       IF k \in hit
                       THEN Forget(ClearTimeout(Settle(requests[k], "Disconnected")))
                       ELSE requests[k]]
     /\ pendingRequests' =
          [i \in Ids |-> IF i \in toRemove THEN 0 ELSE pendingRequests[i]]

\* Variant of HandleMessage that drops an envelope of unregistered type
\* without a reply.
HandleMessageSilent(c, env) ==
  IF env.type \notin Processors
  THEN /\ out' = Out(<<>>, Emit("message", c), <<>>, "none")
       /\ UNCHANGED <<requests, pendingRequests>>
  ELSE IF env.type \in RequestTypes
  THEN /\ SendRequestAndWaitForResponse(c, env.id, TRUE)
       /\ out' = Out(Send(c, env.type, "-"), Emit("message", c),
                     SendOutcome(c), "none")
  ELSE IF env.type = "command"
  THEN /\ out' = Out(Send(c, "command", "-") \o Send(c, "command_ack", "-"),
                     Emit("message", c), <<>>, "none")
       /\ UNCHANGED <<requests, pendingRequests>>
  ELSE HandleResponse(c, env)

\* The processor handleMessage runs for a decoded envelope from client c.
HandleMessage(c, env) ==
  IF env.type \notin Processors
  THEN /\ out' = Out(Send(c, "error", "UNKNOWN_MESSAGE_TYPE"),
                     Emit("message", c), <<>>, "none")
       /\ UNCHANGED <<requests, pendingRequests>>
  ELSE IF env.type \in RequestTypes
  THEN /\ SendRequestAndWaitForResponse(c, env.id, TRUE)
       /\ out' = Out(Send(c, env.type, "-"), Emit("message", c),
                     SendOutcome(c), "none")
  ELSE IF env.type = "command"
  THEN /\ out' = Out(Send(c, "command", "-") \o Send(c, "command_ack", "-"),
                     Emit("message", c), <<>>, "none")
       /\ UNCHANGED <<requests, pendingRequests>>
  ELSE HandleResponse(c, env)

GetFirstAvailableClient == IF Len(clients) > 0 THEN clients[1] ELSE NoClient

TargetClientId(target) ==
  IF target # NoClient THEN target ELSE GetFirstAvailableClient

\* ------------------------------------------------------ cache parts
\* The clientId argument of a service call: an id, or NoClient for undefined.
CacheTargets == {"c1", NoClient}

\* The options argument of requestScreenshot: undefined, {format: 'jpeg'}.
Options == {"none", "jpeg"}

\* The options argument of requestContext: undefined, {includeInteractions:
\* false}.
ContextOptions == {"none", "noInteractions"}

\* clientId || 'default'
DefaultKey(target) == IF target = NoClient THEN "default" ELSE target

\* ScreenshotService.getCacheKey: the client id and the options with their
\* defaults filled in (format 'png'), serialized.
GetCacheKey(target, options) ==
  <<DefaultKey(target), IF options = "none" THEN "png" ELSE options>>

\* The clientId argument of the ContextService calls.
ContextTargets == {"c1"}

\* The keys ContextService.cache is read and written under.
ContextKeys == {DefaultKey(t) : t \in ContextTargets}

\* The numbers of interactions a device reports: none, or one more than
\* trackInteraction keeps.
ReportedInteractions == {0, MaxInteractions + 1}

\* Map.get: the place of the entry stored under key, 0 when there is none.
IndexOf(cache, key) ==
  IF \E i \in DOMAIN cache : cache[i].key = key
  THEN CHOOSE i \in DOMAIN cache : cache[i].key = key
  ELSE 0

\* Map.set: an entry under a key already present is replaced in place, a new
\* key goes to the end.
MapSet(cache, entry) ==
  IF IndexOf(cache, entry.key) # 0
  THEN [cache EXCEPT ![IndexOf(cache, entry.key)] = entry]
  ELSE Append(cache, entry)

\* Map.delete of the entry at place i.
DeleteAt(cache, i) ==
  [j \in 1..(Len(cache) - 1) |-> IF j < i THEN cache[j] ELSE cache[j + 1]]

\* Variant of ScreenshotIsCacheValid that still serves an entry at its TTL.
ScreenshotValidAtMaxAge(e) == now - e.timestamp <= maxAge

\* ScreenshotService.isCacheValid
ScreenshotIsCacheValid(e) == now - e.timestamp < maxAge

\* ContextService.isCacheValid
ContextIsCacheValid(e) == now - e.timestamp < Min(maxAge, SnapshotMaxAge)

\* ScreenshotService.evictOldestScreenshot: the scan starts from
\* oldestTimestamp = Date.now() and takes a key only on a strictly smaller
\* timestamp, so it ends on the first entry with the smallest timestamp, and
\* on no entry when none is older than now.
OldestIndex(cache) ==
  IF \E i \in DOMAIN cache : cache[i].timestamp < now
  THEN CHOOSE i \in DOMAIN cache :
         /\ cache[i].timestamp < now
         /\ \A j \in DOMAIN cache : cache[j].timestamp >= cache[i].timestamp
         /\ \A j \in 1..(i - 1) : cache[j].timestamp > cache[i].timestamp
  ELSE 0

EvictOldestScreenshot(cache) ==
  IF OldestIndex(cache) = 0 THEN cache ELSE DeleteAt(cache, OldestIndex(cache))

\* ScreenshotService.cacheScreenshot
CacheScreenshot(cache, entry) ==
  MapSet(IF Len(cache) >= MaxScreenshots
         THEN EvictOldestScreenshot(cache) ELSE cache,
         entry)

\* The userInteractions a device reports: n events.
DeviceInteractions(n) == [k \in 1..n |-> "device"]

\* ContextService.processContextData, as far as the interaction list goes.
ProcessContextData(events, options) ==
  IF options = "noInteractions" THEN <<>> ELSE events

\* The push and slice(-50) of trackInteraction.
PushInteraction(events) ==
  IF Len(events) + 1 > MaxInteractions
  THEN SubSeq(Append(events, "tracked"),
              Len(events) + 2 - MaxInteractions, Len(events) + 1)
  ELSE Append(events, "tracked")

\* Variant of ContextCleanupMaxAge that sweeps by the configured maxAge alone.
ConfiguredMaxAge == maxAge

\* The maxAge of ContextService.cleanupExpiredCache.
ContextCleanupMaxAge == Min(maxAge, SnapshotMaxAge)

\* No frame has been fetched yet.
NoFrame == [target |-> NoClient, options |-> "none", payload |-> 0, at |-> 0]

\* result: how the call or callback ended; payload: the frame it returned
\* (the number of the fetch that brought it), 0 when none; of a sweep, the
\* count of entries it deleted.
CacheOut(result, payload) == [result |-> result, payload |-> payload]

NoCacheOut == CacheOut("none", 0)

\* -------------------------------------------------- device transport parts
\* The messages handed to sendOrQueue.
Messages == {"m1", "m2"}

\* The close codes a socket reports: the clean one and an abnormal one.
CloseCodes == {1000, 1006}

\* result: how a call of connect or sendOrQueue ended at once; sent: the
\* frames written; emitted: the handlers called; delay: the delay of the
\* reconnect timer that was set, in seconds, 0 when none was.
ClientOut(result, sent, emitted) ==
  [result |-> result, sent |-> sent, emitted |-> emitted, delay |-> 0]

NoClientOut == ClientOut("none", <<>>, <<>>)

\* new WebSocket(url) with the handlers and the connect timeout connect()
\* attaches to it.  timer: that timeout is scheduled; awaited: who awaits the
\* promise of the connect() call, the caller of connect ("connect"), the
\* reconnect timer ("reconnect"), or nobody once it is settled.
NewSocket(via) == [state |-> "connecting", timer |-> TRUE, awaited |-> via]

\* WebSocketClient.isConnected, on the sockets as given.
IsConnectedIn(socks, cur) == cur # 0 /\ socks[cur].state = "open"

IsConnected == IsConnectedIn(sockets, ws)

\* WebSocketClient.connectionState === 'connecting'
IsConnectingState == ws # 0 /\ sockets[ws].state = "connecting"

\* The guard of connect(): already connected or connecting.
AlreadyConnected == isConnecting \/ IsConnected

\* resolve / reject of a connect() promise: the first settles it.
SettlePromise(sock, outcome) == [sock EXCEPT !.awaited = "nobody"]

\* ws.close(...): a socket that is connecting or open starts closing.
CloseSocket(sock) ==
  IF sock.state \in {"connecting", "open"}
  THEN [sock EXCEPT !.state = "closing"] ELSE sock

\* queueMessage without the limit on the queue.
QueueMessageUnbounded(queue, m) == Append(queue, m)

\* The backoff without its cap.
ReconnectDelayUncapped(attempts) == 2 ^ (attempts - 1)

\* The delay scheduleReconnect computes from the attempts counted so far:
\* Math.min(1000 * Math.pow(2, attempts - 1), 30000) ms, in seconds.
ReconnectDelay(attempts) == Min(2 ^ (attempts - 1), 30)

\* The condition of onclose without the cap on the attempts.
ShouldReconnectUncapped(code) == code # 1000

\* The condition under which onclose schedules a reconnect.
ShouldReconnect(code) ==
  code # 1000 /\ reconnectAttempts < MaxReconnectAttempts

\* WebSocketClient.queueMessage: push, and shift past maxQueueSize.
QueueMessage(queue, m) ==
  IF Len(queue) + 1 > MaxQueueSize THEN Tail(Append(queue, m))
  ELSE Append(queue, m)

\* WebSocketClient.flushMessageQueue with the transport connected or not:
\* the frames it writes ...
FlushSent(queue, connected) == IF connected THEN queue ELSE <<>>

\* ... and the queue it leaves: on the first failed send that message is
\* queued again and the loop stops.
FlushLeft(queue, connected) ==
  IF connected \/ queue = <<>> THEN <<>> ELSE <<Head(queue)>>

\* --------------------------------------------------------- discovery parts
\* The explicit address, then the discoveryStrategies of discoverServer in
\* their order: tryDefaultPorts, tryCommonPorts, scanLocalNetwork.
Strategies == <<"explicit", "default", "common", "subnet">>

\* The SDKConfig discoverServer reads: an explicit address is configured
\* (serverUrl, or serverHost and serverPort), autoDiscovery, discoveryTimeout.
DiscoveryConfigs ==
  [explicit : BOOLEAN, autoDiscovery : BOOLEAN, discoveryTimeout : Budgets]

\* A strategy that was started: when, and with which remaining budget.
Started(strategy, at, remaining) ==
  [strategy |-> strategy, at |-> at, remaining |-> remaining]

\* What testConnectionWithResult gives for a candidate, and when: a result
\* with its responseTime once the socket has opened, before the probe
\* timeout (the reply is taken to come at once); null on an error, here at
\* once, or on the probe timeout.
Probe(candidate, answers, at) ==
  [candidate |-> candidate, answers |-> answers, at |-> at]

ProbeOutcomes(candidate) ==
  {Probe(candidate, TRUE, t) : t \in 0..(ProbeTimeout - 1)}
    \cup {Probe(candidate, FALSE, t) : t \in {0, ProbeTimeout}}

\* No DiscoveryResult.
NoServer == Probe(0, FALSE, 0)

\* The results as the promises of a strategy are created: one per candidate.
ProbeLists(n) ==
  {ps \in [1..n -> UNION {ProbeOutcomes(c) : c \in 1..n}] :
     \A c \in 1..n : ps[c].candidate = c}

\* successful.sort((a, b) => a.responseTime - b.responseTime): a result goes
\* behind those that are not slower.
RECURSIVE SortByResponseTime(_)
SortByResponseTime(results) ==
  IF results = <<>> THEN <<>>
  ELSE LET sorted == SortByResponseTime(SubSeq(results, 1, Len(results) - 1))
           last == results[Len(results)]
           before == SelectSeq(sorted, LAMBDA r : r.at <= last.at)
           behind == SelectSeq(sorted, LAMBDA r : r.at > last.at)
       IN before \o <<last>> \o behind

\* A strategy that takes the first successful result in the order of the
\* candidates.
FirstSuccessful(probes) ==
  LET successful == SelectSeq(probes, LAMBDA r : r.answers) IN
    IF Len(successful) > 0 THEN successful[1] ELSE NoServer

\* tryDefaultPorts, tryCommonPorts, scanLocalNetwork on the settled results:
\* the fastest of the successful ones, or null.
FastestSuccessful(probes) ==
  LET successful == SelectSeq(probes, LAMBDA r : r.answers) IN
    IF Len(successful) > 0 THEN SortByResponseTime(successful)[1]
    ELSE NoServer

\* discoverServer before it is called.  elapsed: Date.now() - startTime;
\* state: where the call is; strategy: the place in Strategies of the one
\* awaited; begun: when it was started; remainingTime: the time of the
\* timeout it races against; probes: what the candidates of that strategy
\* give; started: the strategies started so far; result: what the call
\* returned, and server: the candidate it returned.
IdleDiscovery(config, responsive) ==
  [config |-> config, responsive |-> responsive, elapsed |-> 0,
   state |-> "idle", strategy |-> 0, begun |-> 0, remainingTime |-> 0,
   probes |-> <<>>, started |-> <<>>, result |-> "pending",
   server |-> NoServer]

\* return of discoverServer
Return(d, result) == [d EXCEPT !.state = "returned", !.result = result]

\* The loop over the strategies without the check of the remaining time.
EnterLoopUnbudgeted(d, k) ==
  IF k > Len(Strategies) THEN Return(d, "null")
  ELSE [d EXCEPT !.state = "strategy", !.strategy = k, !.begun = d.elapsed,
                 !.remainingTime = d.config.discoveryTimeout,
                 !.started = Append(@, Started(Strategies[k], d.elapsed,
                                               d.config.discoveryTimeout))]

\* The loop over the strategies from the k-th on, up to its next await: the
\* remaining time is computed, and the strategy started against a timeout of
\* that length unless the time is used up or no strategy is left.
EnterLoop(d, k) ==
  LET remainingTime == d.config.discoveryTimeout - d.elapsed IN
    IF k > Len(Strategies) \/ remainingTime <= 0 THEN Return(d, "null")
    ELSE [d EXCEPT !.state = "strategy", !.strategy = k, !.begun = d.elapsed,
                   !.remainingTime = remainingTime,
                   !.started = Append(@, Started(Strategies[k], d.elapsed,
                                                 remainingTime))]

\* discoverServer after the explicit address, if any, did not answer.
AfterExplicit(d) ==
  IF ~d.config.autoDiscovery THEN Return(d, "null") ELSE EnterLoop(d, 2)

\* The probes started with the explicit address or the strategy d has just
\* begun: one for the explicit address, one per candidate otherwise; one of
\* them answers exactly when the strategy is among the responsive ones.
ProbesOf(d) ==
  IF d.state = "returned" THEN {d.probes}
  ELSE {ps \in ProbeLists(IF d.state = "explicit" THEN 1 ELSE MaxCandidates) :
          (\E c \in DOMAIN ps : ps[c].answers)
            <=> Strategies[d.strategy] \in d.responsive}

\* d with one of those probes under way.
Probing(d) == {[d EXCEPT !.probes = ps] : ps \in ProbesOf(d)}

\* Promise.allSettled: the time by which every awaited probe has settled.
SettledAt(d) ==
  d.begun + (CHOOSE t \in 0..ProbeTimeout :
               /\ \A c \in DOMAIN d.probes : d.probes[c].at <= t
               /\ \E c \in DOMAIN d.probes : d.probes[c].at = t)

\* The time by which the awaited probes have settled or the race is over.
Deadline(d) ==
  IF d.state = "strategy"
  THEN Min(SettledAt(d), d.begun + d.remainingTime)
  ELSE SettledAt(d)

\* ------------------------------------------------------------ device parts
\* The requests the bridge sends to the device.
DeviceRequests ==
  [id : Ids, type : {"screenshot_request", "context_request"}]

\* The id of another request that is being handled.
AnyHandledId(request) ==
  (CHOOSE r \in device.handling : r # request \/ device.handling = {request}).id

\* The id handleMessage puts on what it sends: message.id of its own call.
ResponseId(request) == request.id

\* The envelope handleMessage sends when the collaborator has settled: the
\* response, or the error envelope of the catch block.
DeviceAnswer(request, ok) ==
  [type |-> IF ~ok THEN "error"
            ELSE IF request.type = "screenshot_request"
                 THEN "screenshot_response" ELSE "context_response",
   id |-> ResponseId(request),
   request |-> request]

\* The provider before initializeSDK.  socket: the readyState of the
\* transport's socket; via: who made it; isConnected: the React state;
\* listening: the handlers of the message effect are registered with the
\* transport; handling: the requests whose handleMessage awaits its
\* collaborator; sent: the envelopes the last step sent; initialized: the
\* connect of initializeSDK has resolved.
IdleDevice ==
  [socket |-> "none", via |-> "connect", reconnectAttempts |-> 0,
   reconnectTimeout |-> FALSE, isConnected |-> FALSE, listening |-> FALSE,
   initialized |-> FALSE, handling |-> {}, sent |-> <<>>]

\* ------------------------------------------------------------ server parts
\* The bridge constructed and started: the constructors of the two services
\* have started their cleanup timers, start() the heartbeat.
RunningServer ==
  [isRunning |-> TRUE, stopping |-> FALSE, accepting |-> TRUE,
   heartbeatInterval |-> TRUE, screenshotCleanup |-> TRUE,
   contextCleanup |-> TRUE]

\* ------------------------------------------------------------------ Init
\* The bridge after construction: no connection, no request.
BridgeInit ==
  /\ clients = <<>>
  /\ socket = [c \in Clients |-> "none"]
  /\ age = [c \in Clients |-> 0]
  /\ beatDue = FALSE
  /\ sinceBeat = 0
  /\ requests = <<>>
  /\ pendingRequests = [i \in Ids |-> 0]
  /\ out = NoOut

\* The two services after construction: empty caches, nothing awaited.
CacheInit ==
  /\ now = 0
  /\ shots = <<>>
  /\ contexts = <<>>
  /\ calls = {}
  /\ fetched = 0
  /\ completed = NoFrame
  /\ cout = NoCacheOut

\* The device transport after construction.
ClientInit ==
  /\ sockets = <<>>
  /\ ws = 0
  /\ isConnecting = FALSE
  /\ reconnectAttempts = 0
  /\ reconnectTimeout = "null"
  /\ staleReconnects = 0
  /\ heartbeatInterval = FALSE
  /\ staleHeartbeats = 0
  /\ messageQueue = <<>>
  /\ tout = NoClientOut
  /\ history = [sinceOpen |-> 0, sinceReset |-> 0, disconnected |-> FALSE]

\* No call of discoverServer yet, under the default configuration.
DiscoveryInit ==
  discovery = IdleDiscovery([explicit |-> FALSE, autoDiscovery |-> TRUE,
                             discoveryTimeout |-> 5], {})

\* The provider is mounted, initializeSDK has not connected yet.
DeviceInit == device = IdleDevice

ServerInit == server = RunningServer

Init ==
  /\ BridgeInit
  /\ maxAge = 1
  /\ service = "screenshot"
  /\ CacheInit
  /\ ClientInit
  /\ DiscoveryInit
  /\ DeviceInit
  /\ ServerInit

\* --------------------------------------------- WebSocketServer callbacks
\* server.on('connection'): a new id is tracked and welcomed.
Connection(c) ==
  /\ server.accepting
  /\ socket[c] = "none"
  /\ clients' = Append(clients, c)
  /\ socket' = [socket EXCEPT ![c] = "open"]
  /\ age' = [age EXCEPT ![c] = 0]
  /\ out' = Out(<<Msg(c, "welcome", "-")>>, Emit("clientConnected", c), <<>>, "none")
  /\ UNCHANGED <<beatDue, sinceBeat, requests, pendingRequests>>

\* socket.on('message'), up to the emit: the frame is waited for on a socket
\* that is open, or that the server is closing (it still delivers what the
\* peer sent before it saw the close); connection.lastHeartbeat = Date.now().
Receive(c) ==
  /\ socket[c] \in {"open", "closing"}
  /\ age' = [age EXCEPT ![c] = 0]
  /\ UNCHANGED <<clients, socket, beatDue, sinceBeat>>

\* Variant of BadMessage that swallows the frame without a reply.
BadMessageSilent(c) ==
  /\ socket[c] \in {"open", "closing"}
  /\ out' = NoOut
  /\ UNCHANGED <<clients, socket, age, beatDue, sinceBeat, requests, pendingRequests>>

\* socket.on('message') with a frame JSON.parse rejects.
BadMessage(c) ==
  /\ socket[c] \in {"open", "closing"}
  /\ out' = Out(Send(c, "error", "INVALID_MESSAGE"), <<>>, <<>>, "none")
  /\ UNCHANGED <<clients, socket, age, beatDue, sinceBeat, requests, pendingRequests>>

\* What the heartbeat callback does once it has found the connections in
\* dead expired: they are closed and dropped (the others get a transport
\* ping, which is no envelope).
CloseDead(dead) ==
  /\ clients' = SelectSeq(clients, LAMBDA c : c \notin dead)
  /\ socket' = [c \in Clients |-> IF c \in dead THEN "closing" ELSE socket[c]]
  /\ out' = NoOut

\* Time passes: the last frame of every live connection grows older (an age
\* past the heartbeat timeout is kept at HeartbeatTimeout + 1) and the
\* interval timer becomes due once per HeartbeatInterval.
Tick ==
  /\ age' = [c \in Clients |->
               IF socket[c] \in {"open", "closing"}
               THEN Min(age[c] + 1, HeartbeatTimeout + 1) ELSE age[c]]
  /\ sinceBeat' = (sinceBeat + 1) % HeartbeatInterval
  /\ beatDue' = (server.heartbeatInterval /\ (beatDue \/ sinceBeat' = 0))
  /\ out' = NoOut
  /\ UNCHANGED <<clients, socket, requests, pendingRequests>>

\* Variant of ConnMessage that takes the envelope without emitting it.
ConnMessageSilent(c, env) ==
  /\ Receive(c)
  /\ out' = IF env.type = "heartbeat"
            THEN Out(Send(c, "heartbeat_ack", "-"), <<>>, <<>>, "none")
            ELSE NoOut
  /\ UNCHANGED <<requests, pendingRequests>>

\* socket.on('message') with a frame JSON.parse accepts: a heartbeat is
\* acknowledged, anything else is emitted to the 'message' listeners.
ConnMessage(c, env) ==
  /\ Receive(c)
  /\ out' = IF env.type = "heartbeat"
            THEN Out(Send(c, "heartbeat_ack", "-"), <<>>, <<>>, "none")
            ELSE Out(<<>>, Emit("message", c), <<>>, "none")
  /\ UNCHANGED <<requests, pendingRequests>>

\* socket.on('pong')
Pong(c) ==
  /\ socket[c] \in {"open", "closing"}
  /\ age' = [age EXCEPT ![c] = 0]
  /\ out' = NoOut
  /\ UNCHANGED <<clients, socket, beatDue, sinceBeat, requests, pendingRequests>>

\* Variant of ConnClose that notifies only of an id it found in the table.
ConnCloseTrackedOnly(c) ==
  /\ socket[c] \in {"open", "closing"}
  /\ socket' = [socket EXCEPT ![c] = "closed"]
  /\ clients' = Remove(clients, c)
  /\ age' = [age EXCEPT ![c] = 0]
  /\ out' = Out(<<>>, IF Tracked(c) THEN Emit("clientDisconnected", c) ELSE <<>>,
                <<>>, "none")
  /\ UNCHANGED <<beatDue, sinceBeat, requests, pendingRequests>>

\* socket.on('close'): the id leaves the table, clientDisconnected is emitted.
ConnClose(c) ==
  /\ socket[c] \in {"open", "closing"}
  /\ socket' = [socket EXCEPT ![c] = "closed"]
  /\ clients' = Remove(clients, c)
  /\ age' = [age EXCEPT ![c] = 0]
  /\ out' = Out(<<>>, Emit("clientDisconnected", c), <<>>, "none")
  /\ UNCHANGED <<beatDue, sinceBeat, requests, pendingRequests>>

\* The connections one run of the heartbeat callback finds expired.
Dead == {c \in Range(clients) : HeartbeatExpired(c)}

\* The setInterval callback of startHeartbeat.
Heartbeat ==
  /\ beatDue
  /\ beatDue' = FALSE
  /\ CloseDead(Dead)
  /\ UNCHANGED <<age, sinceBeat, requests, pendingRequests>>

\* AIScreenshotServer.stop up to the await of server.close: the heartbeat
\* interval is cleared, every tracked socket is closed with code 1000, the
\* table is cleared and the listening server takes no new connection.
Stop ==
  /\ server.isRunning /\ ~server.stopping
  /\ server' = [server EXCEPT !.stopping = TRUE, !.accepting = FALSE,
                              !.heartbeatInterval = FALSE]
  /\ CloseDead(Range(clients))
  /\ beatDue' = FALSE
  /\ sinceBeat' = 0
  /\ UNCHANGED <<age, requests, pendingRequests>>

\* The close callback of the listening server: both stop() calls complete,
\* 'stopped' is emitted.
Stopped ==
  /\ server.stopping
  /\ server' = [server EXCEPT !.stopping = FALSE, !.isRunning = FALSE]
  /\ out' = Out(<<>>, Emit("stopped", NoClient), <<>>, "none")
  /\ UNCHANGED <<clients, socket, age, beatDue, sinceBeat, requests, pendingRequests>>

\* AIScreenshotServer.start on a bridge that is not running: the listening
\* server is made and the heartbeat started.
Start ==
  /\ ~server.isRunning
  /\ server' = [server EXCEPT !.isRunning = TRUE, !.accepting = TRUE,
                              !.heartbeatInterval = TRUE]
  /\ beatDue' = FALSE
  /\ sinceBeat' = 0
  /\ out' = Out(<<>>, Emit("started", NoClient), <<>>, "none")
  /\ UNCHANGED <<clients, socket, age, requests, pendingRequests>>

\* AIScreenshotServer.start when a service fails to start: cleanup() clears
\* the cleanup timers of the two services, rejects every pending request
\* and clears its deadline, and stops the listening server again.
StartFails ==
  /\ ~server.isRunning
  /\ server' = [server EXCEPT !.accepting = FALSE,
                              !.heartbeatInterval = FALSE,
                              !.screenshotCleanup = FALSE,
                              !.contextCleanup = FALSE]
  /\ CloseDead(Range(clients))
  /\ requests' = [k \in DOMAIN requests |->
                    Forget(ClearTimeout(Settle(requests[k], "Cleanup")))]
  /\ pendingRequests' = [i \in Ids |-> 0]
  /\ beatDue' = FALSE
  /\ sinceBeat' = 0
  /\ UNCHANGED age

NextConn ==
  \/ StartFails /\ UNCHANGED <<cacheVars, clientVars, discovery, device>>
  \/ Stop /\ UNCHANGED <<cacheVars, clientVars, discovery, device>>
  \/ Stopped /\ UNCHANGED <<cacheVars, clientVars, discovery, device>>
  \/ Start /\ UNCHANGED <<cacheVars, clientVars, discovery, device>>
  \/ Tick /\ UNCHANGED <<cacheVars, clientVars, discovery, device, server>>
  \/ \E c \in Clients : Connection(c) /\ UNCHANGED <<cacheVars, clientVars, discovery, device, server>>
  \/ \E c \in Clients, env \in Envelopes : ConnMessage(c, env) /\ UNCHANGED <<cacheVars, clientVars, discovery, device, server>>
  \/ \E c \in Clients : BadMessage(c) /\ UNCHANGED <<cacheVars, clientVars, discovery, device, server>>
  \/ \E c \in Clients : Pong(c) /\ UNCHANGED <<cacheVars, clientVars, discovery, device, server>>
  \/ \E c \in Clients : ConnClose(c) /\ UNCHANGED <<cacheVars, clientVars, discovery, device, server>>
  \/ Heartbeat /\ UNCHANGED <<cacheVars, clientVars, discovery, device, server>>

SpecConn == Init /\ [][NextConn]_<<vars, server>>

\* A socket the server has closed does get its 'close' event: the peer
\* completes the closing handshake, or the close timer of the socket
\* destroys it.
SpecConnLive ==
  /\ SpecConn
  /\ \A c \in Clients :
       WF_<<vars, server>>(socket[c] = "closing" /\ ConnClose(c)
                             /\ UNCHANGED <<cacheVars, clientVars, discovery,
                                            device, server>>)

\* --------------------------------------------------- the bridge callbacks
\* socket.on('message') with a frame JSON.parse accepts, and the 'message'
\* listener of MessageHandler.
Message(c, env) ==
  /\ Receive(c)
  /\ IF env.type = "heartbeat"
     THEN /\ out' = Out(Send(c, "heartbeat_ack", "-"), <<>>, <<>>, "none")
          /\ UNCHANGED <<requests, pendingRequests>>
     ELSE HandleMessage(c, env)

\* socket.on('close'): the id leaves the table and clientDisconnected is
\* emitted, which MessageHandler answers with handleClientDisconnected.
SocketClose(c) ==
  /\ socket[c] \in {"open", "closing"}
  /\ socket' = [socket EXCEPT ![c] = "closed"]
  /\ clients' = Remove(clients, c)
  /\ age' = [age EXCEPT ![c] = 0]
  /\ HandleClientDisconnected(c)
  /\ out' = Out(<<>>, Emit("clientDisconnected", c),
                [k \in 1..Cardinality(OwnedBy(c)) |-> "Disconnected"], "none")
  /\ UNCHANGED <<beatDue, sinceBeat>>

\* The setInterval callback of startHeartbeat, whatever the clock reads.
HeartbeatAny(dead) ==
  /\ dead \subseteq Range(clients)
  /\ CloseDead(dead)
  /\ UNCHANGED <<age, beatDue, sinceBeat, requests, pendingRequests>>

\* The setTimeout callback of request idx: its deadline has passed.  Every
\* request waits the same config.mcp.timeout, so the timers run in the order
\* they were set.
Timeout(idx) ==
  /\ idx \in DOMAIN requests
  /\ requests[idx].armed
  /\ \A j \in 1..(idx - 1) : ~requests[j].armed
  /\ pendingRequests' = [pendingRequests EXCEPT ![requests[idx].id] = 0]
  /\ requests' = [requests EXCEPT
                    ![idx] = Forget(ClearTimeout(Settle(@, "Timeout")))]
  /\ out' = Out(Continuation(requests[idx], "error", "REQUEST_FAILED"), <<>>,
                Outcome(requests[idx], "Timeout"), "none")
  /\ UNCHANGED connVars

\* MessageHandler.requestScreenshot / requestContext; id stands for the
\* `${prefix}-${Date.now()}` the call builds.
Request(type, target, id) ==
  /\ IF TargetClientId(target) = NoClient
     THEN /\ out' = Out(<<>>, <<>>, <<>>, "DeviceUnavailable")
          /\ UNCHANGED <<requests, pendingRequests>>
     ELSE /\ SendRequestAndWaitForResponse(TargetClientId(target), id, FALSE)
          /\ out' = Out(Send(TargetClientId(target), type, "-"), <<>>,
                        SendOutcome(TargetClientId(target)),
                        IF SendToClient(TargetClientId(target))
                        THEN "pending" ELSE "SendFailed")
  /\ UNCHANGED connVars

\* MessageHandler.sendCommand
SendCommand(target) ==
  /\ out' = IF TargetClientId(target) = NoClient
            THEN Out(<<>>, <<>>, <<>>, "DeviceUnavailable")
            ELSE Out(Send(TargetClientId(target), "command", "-"), <<>>, <<>>,
                     IF SendToClient(TargetClientId(target))
                     THEN "command_sent" ELSE "SendFailed")
  /\ UNCHANGED <<connVars, requests, pendingRequests>>

Next ==
  \/ \E c \in Clients : Connection(c) /\ UNCHANGED <<cacheVars, clientVars, discovery, device, server>>
  \/ \E c \in Clients, env \in Envelopes : Message(c, env) /\ UNCHANGED <<cacheVars, clientVars, discovery, device, server>>
  \/ \E c \in Clients : BadMessage(c) /\ UNCHANGED <<cacheVars, clientVars, discovery, device, server>>
  \/ \E c \in Clients : SocketClose(c) /\ UNCHANGED <<cacheVars, clientVars, discovery, device, server>>
  \/ \E dead \in SUBSET Clients : HeartbeatAny(dead) /\ UNCHANGED <<cacheVars, clientVars, discovery, device, server>>
  \/ \E idx \in 1..MaxReq : Timeout(idx) /\ UNCHANGED <<cacheVars, clientVars, discovery, device, server>>
  \/ \E type \in RequestTypes, target \in Clients \cup {NoClient}, id \in Ids :
       Request(type, target, id) /\ UNCHANGED <<cacheVars, clientVars, discovery, device, server>>
  \/ \E target \in Clients \cup {NoClient} : SendCommand(target) /\ UNCHANGED <<cacheVars, clientVars, discovery, device, server>>

Spec == Init /\ [][Next]_vars

\* ---------------------------------------------------- the two services
\* The awaited messageHandler.requestScreenshot / requestContext call of one
\* service call; id numbers the fetch and stands for what it brings back.
Call(of, target, options) ==
  [service |-> of, target |-> target, options |-> options, id |-> fetched + 1]

\* A service asks the device.  The first MaxFetch fetches of a run are
\* followed to their response; a later one is made all the same, and its
\* response lies beyond the run.
Fetch(of, target, options) ==
  /\ cout' = CacheOut("fetch", 0)
  /\ IF fetched < MaxFetch
     THEN /\ fetched' = fetched + 1
          /\ calls' = calls \cup {Call(of, target, options)}
     ELSE UNCHANGED <<fetched, calls>>

\* Time passes.
TickClock ==
  /\ now < MaxNow
  /\ now' = now + 1
  /\ cout' = NoCacheOut
  /\ UNCHANGED <<maxAge, shots, contexts, calls, fetched, completed>>

\* Variant of RequestScreenshot that asks the device whatever the cache holds.
RequestScreenshotUncached(target, options) ==
  /\ Fetch("screenshot", target, options)
  /\ UNCHANGED <<now, maxAge, shots, contexts, completed>>

\* ScreenshotService.requestScreenshot up to its await: a valid entry under
\* the key is returned, otherwise the frame is asked of the device.
RequestScreenshot(target, options) ==
  LET i == IndexOf(shots, GetCacheKey(target, options)) IN
    IF i # 0 /\ ScreenshotIsCacheValid(shots[i])
    THEN /\ cout' = CacheOut("hit", shots[i].id)
         /\ UNCHANGED <<now, maxAge, shots, contexts, calls, fetched, completed>>
    ELSE /\ Fetch("screenshot", target, options)
         /\ UNCHANGED <<now, maxAge, shots, contexts, completed>>

\* ScreenshotService.requestScreenshot from its await on: the response is
\* stored with timestamp Date.now() and returned, or the call throws.
ScreenshotResponse(call, ok) ==
  /\ call \in calls
  /\ call.service = "screenshot"
  /\ calls' = calls \ {call}
  /\ IF ok
     THEN /\ shots' = CacheScreenshot(shots,
                        [key |-> GetCacheKey(call.target, call.options),
                         id |-> call.id, timestamp |-> now])
          /\ completed' = IF completed = NoFrame
                          THEN [target |-> call.target, options |-> call.options,
                                payload |-> call.id, at |-> now]
                          ELSE completed
          /\ cout' = CacheOut("fetched", call.id)
     ELSE /\ cout' = CacheOut("failed", 0)
          /\ UNCHANGED <<shots, completed>>
  /\ UNCHANGED <<now, maxAge, contexts, fetched>>

\* ScreenshotService.cleanupExpiredCache, the setInterval callback.
CleanupExpiredScreenshots ==
  /\ shots' = SelectSeq(shots, LAMBDA e : ~(now - e.timestamp > maxAge))
  /\ cout' = CacheOut("swept", Len(shots) - Len(shots'))
  /\ UNCHANGED <<now, maxAge, contexts, calls, fetched, completed>>

\* ContextService.requestContext up to its await.
RequestContext(target, options) ==
  LET i == IndexOf(contexts, DefaultKey(target)) IN
    IF i # 0 /\ ContextIsCacheValid(contexts[i])
    THEN /\ cout' = CacheOut("hit", 0)
         /\ UNCHANGED <<now, maxAge, shots, contexts, calls, fetched, completed>>
    ELSE /\ Fetch("context", target, options)
         /\ UNCHANGED <<now, maxAge, shots, contexts, completed>>

\* ContextService.updateContext; options are those the context was processed
\* under, "tracked" for a context trackRouteChange made up.  fetchedAt is
\* when the context object, with its component tree, was stored.
UpdateContext(key, options, interactions) ==
  MapSet(contexts, [key |-> key, options |-> options,
                    interactions |-> interactions, timestamp |-> now,
                    fetchedAt |-> now])

\* ContextService.requestContext from its await on; n is the number of
\* interactions the device reported.
ContextResponse(call, ok, n) ==
  /\ call \in calls
  /\ call.service = "context"
  /\ calls' = calls \ {call}
  /\ IF ok
     THEN /\ contexts' = UpdateContext(DefaultKey(call.target), call.options,
                           ProcessContextData(DeviceInteractions(n), call.options))
          /\ cout' = CacheOut("fetched", 0)
     ELSE /\ cout' = CacheOut("failed", 0)
          /\ UNCHANGED contexts
  /\ UNCHANGED <<now, maxAge, shots, fetched, completed>>

\* ContextService.getLatestContext
GetLatestContext(target) ==
  LET i == IndexOf(contexts, DefaultKey(target)) IN
    /\ cout' = IF i # 0 /\ ContextIsCacheValid(contexts[i])
               THEN CacheOut("hit", 0)
               ELSE CacheOut("miss", 0)
    /\ UNCHANGED <<now, maxAge, shots, contexts, calls, fetched, completed>>

\* ContextService.trackRouteChange: the entry is refreshed, or made (the
\* route itself is not kept here).
TrackRouteChange(key) ==
  /\ contexts' = IF IndexOf(contexts, key) # 0
                 THEN [contexts EXCEPT ![IndexOf(contexts, key)].timestamp = now]
                 ELSE UpdateContext(key, "tracked", <<>>)
  /\ cout' = NoCacheOut
  /\ UNCHANGED <<now, maxAge, shots, calls, fetched, completed>>

\* ContextService.trackInteraction
TrackInteraction(key) ==
  /\ contexts' = IF IndexOf(contexts, key) # 0
                 THEN [contexts EXCEPT
                         ![IndexOf(contexts, key)].interactions = PushInteraction(@),
                         ![IndexOf(contexts, key)].timestamp = now]
                 ELSE contexts
  /\ cout' = NoCacheOut
  /\ UNCHANGED <<now, maxAge, shots, calls, fetched, completed>>

\* ContextService.cleanupExpiredCache, the setInterval callback.
CleanupExpiredContexts ==
  /\ contexts' = SelectSeq(contexts,
                   LAMBDA e : ~(now - e.timestamp > ContextCleanupMaxAge))
  /\ cout' = CacheOut("swept", Len(contexts) - Len(contexts'))
  /\ UNCHANGED <<now, maxAge, shots, calls, fetched, completed>>

InitCache ==
  /\ BridgeInit
  /\ maxAge \in MaxAges
  /\ service \in {"screenshot", "context"}
  /\ CacheInit
  /\ ClientInit
  /\ DiscoveryInit
  /\ DeviceInit
  /\ ServerInit

\* The calls a response may come back for.
Calls(of) ==
  [service : {of}, target : CacheTargets,
   options : IF of = "context" THEN ContextOptions ELSE Options,
   id : 1..MaxFetch]

\* The two services share the clock and the configuration and nothing
\* else, so a run drives the callers, responses and timer of one of them.
NextCache ==
  \/ TickClock /\ UNCHANGED <<vars, service, clientVars, discovery, device, server>>
  \/ \E t \in CacheTargets, o \in Options :
       service = "screenshot" /\ RequestScreenshot(t, o) /\ UNCHANGED <<vars, service, clientVars, discovery, device, server>>
  \/ \E call \in Calls("screenshot"), ok \in BOOLEAN :
       ScreenshotResponse(call, ok) /\ UNCHANGED <<vars, service, clientVars, discovery, device, server>>
  \/ service = "screenshot" /\ CleanupExpiredScreenshots /\ UNCHANGED <<vars, service, clientVars, discovery, device, server>>
  \/ \E t \in ContextTargets, o \in ContextOptions :
       service = "context" /\ RequestContext(t, o) /\ UNCHANGED <<vars, service, clientVars, discovery, device, server>>
  \/ \E call \in Calls("context"), ok \in BOOLEAN, n \in ReportedInteractions :
       ContextResponse(call, ok, n) /\ UNCHANGED <<vars, service, clientVars, discovery, device, server>>
  \/ \E t \in ContextTargets :
       service = "context" /\ GetLatestContext(t) /\ UNCHANGED <<vars, service, clientVars, discovery, device, server>>
  \/ \E k \in ContextKeys :
       service = "context" /\ TrackRouteChange(k) /\ UNCHANGED <<vars, service, clientVars, discovery, device, server>>
  \/ \E k \in ContextKeys :
       service = "context" /\ TrackInteraction(k) /\ UNCHANGED <<vars, service, clientVars, discovery, device, server>>
  \/ service = "context" /\ CleanupExpiredContexts /\ UNCHANGED <<vars, service, clientVars, discovery, device, server>>

SpecCache == InitCache /\ [][NextCache]_cacheVars

\* ------------------------------------------------- the device transport
\* WebSocketClient.connect: nothing when already connected or connecting,
\* otherwise a new socket becomes this.ws.
DoConnect(via) ==
  IF AlreadyConnected
  THEN UNCHANGED <<sockets, ws, isConnecting>>
  ELSE /\ Len(sockets) < MaxSockets
       /\ isConnecting' = TRUE
       /\ sockets' = Append(sockets, NewSocket(via))
       /\ ws' = Len(sockets) + 1

\* A call of connect(url) by the application.
Connect ==
  /\ DoConnect("connect")
  /\ tout' = ClientOut(IF AlreadyConnected THEN "resolved" ELSE "pending",
                       <<>>, <<>>)
  /\ history' = [history EXCEPT !.disconnected = FALSE]
  /\ UNCHANGED <<reconnectAttempts, reconnectTimeout, staleReconnects,
                 heartbeatInterval, staleHeartbeats, messageQueue>>

\* ws.onopen of socket s: the timeout of its connect() is cleared, the
\* heartbeat started, the queue flushed and the promise resolved; a reconnect
\* that awaited the promise flushes again and calls the reconnect handlers.
SocketOpen(s) ==
  /\ s \in DOMAIN sockets
  /\ sockets[s].state = "connecting"
  /\ sockets' = [sockets EXCEPT
                   ![s] = SettlePromise([@ EXCEPT !.state = "open",
                                                  !.timer = FALSE], "resolved")]
  /\ isConnecting' = FALSE
  /\ reconnectAttempts' = 0
  /\ heartbeatInterval' = TRUE
  /\ staleHeartbeats' = staleHeartbeats + (IF heartbeatInterval THEN 1 ELSE 0)
  /\ messageQueue' = FlushLeft(messageQueue, IsConnectedIn(sockets', ws))
  /\ tout' = ClientOut("none",
               FlushSent(messageQueue, IsConnectedIn(sockets', ws)),
               IF sockets[s].awaited = "reconnect" THEN <<"reconnect">> ELSE <<>>)
  /\ history' = [history EXCEPT !.sinceOpen = 0, !.sinceReset = 0]
  /\ UNCHANGED <<ws, reconnectTimeout, staleReconnects>>

\* ws.onerror of socket s; the socket goes on to close.
SocketError(s) ==
  /\ s \in DOMAIN sockets
  /\ sockets[s].state \in {"connecting", "open"}
  /\ sockets' = [sockets EXCEPT
                   ![s] = SettlePromise([@ EXCEPT !.state = "closing",
                                                  !.timer = FALSE], "rejected")]
  /\ isConnecting' = FALSE
  /\ tout' = ClientOut("none", <<>>, <<"error">>)
  /\ UNCHANGED <<ws, reconnectAttempts, reconnectTimeout, staleReconnects,
                 heartbeatInterval, staleHeartbeats, messageQueue,
                 history>>

\* scheduleReconnect that sets no timer.
ScheduleNothing ==
  UNCHANGED <<reconnectAttempts, reconnectTimeout, staleReconnects,
              history>>

\* WebSocketClient.scheduleReconnect: the new timer takes the place of the one
\* the field referred to, which stays scheduled.
ScheduleReconnect ==
  /\ reconnectAttempts' = reconnectAttempts + 1
  /\ reconnectTimeout' = "scheduled"
  /\ staleReconnects' =
       staleReconnects + (IF reconnectTimeout = "scheduled" THEN 1 ELSE 0)
  /\ history' = [history EXCEPT !.sinceOpen = @ + 1, !.sinceReset = @ + 1]

\* ws.onclose of socket s with the given code.
SocketClosed(s, code) ==
  /\ s \in DOMAIN sockets
  /\ sockets[s].state \in {"connecting", "open", "closing"}
  /\ sockets' = [sockets EXCEPT ![s].state = "closed", ![s].timer = FALSE]
  /\ isConnecting' = FALSE
  /\ heartbeatInterval' = FALSE
  /\ IF ShouldReconnect(code)
     THEN ScheduleReconnect
     ELSE UNCHANGED <<reconnectAttempts, reconnectTimeout, staleReconnects,
                      history>>
  /\ tout' = [ClientOut("none", <<>>, <<"disconnect">>) EXCEPT
               !.delay = IF reconnectAttempts' # reconnectAttempts
                         THEN ReconnectDelay(reconnectAttempts') ELSE 0]
  /\ UNCHANGED <<ws, staleHeartbeats, messageQueue>>

\* The connect timeout set for socket s fires: this.ws is closed, whichever
\* socket that is by now, and the promise of s rejected.
ConnectTimeout(s) ==
  /\ s \in DOMAIN sockets
  /\ sockets[s].timer
  /\ sockets' = [k \in DOMAIN sockets |->
                   LET closed == IF k = ws THEN CloseSocket(sockets[k])
                                 ELSE sockets[k] IN
                     IF k = s
                     THEN SettlePromise([closed EXCEPT !.timer = FALSE], "rejected")
                     ELSE closed]
  /\ isConnecting' = FALSE
  /\ tout' = NoClientOut
  /\ UNCHANGED <<ws, reconnectAttempts, reconnectTimeout, staleReconnects,
                 heartbeatInterval, staleHeartbeats, messageQueue,
                 history>>

\* A reconnect timer fires, the one the field refers to or a stale one:
\* connect(url), and when that resolves at once, the flush and the reconnect
\* handlers.
ReconnectFires(stale) ==
  /\ IF stale
     THEN /\ staleReconnects > 0
          /\ staleReconnects' = staleReconnects - 1
          /\ UNCHANGED reconnectTimeout
     ELSE /\ reconnectTimeout = "scheduled"
          /\ reconnectTimeout' = "fired"
          /\ UNCHANGED staleReconnects
  /\ DoConnect("reconnect")
  /\ IF AlreadyConnected
     THEN /\ messageQueue' = FlushLeft(messageQueue, IsConnected)
          /\ tout' = ClientOut("resolved", FlushSent(messageQueue, IsConnected),
                               <<"reconnect">>)
     ELSE /\ tout' = ClientOut("pending", <<>>, <<>>)
          /\ UNCHANGED messageQueue
  /\ UNCHANGED <<reconnectAttempts, heartbeatInterval, staleHeartbeats,
                 history>>

\* WebSocketClient.disconnect
Disconnect ==
  /\ reconnectTimeout' = "null"
  /\ heartbeatInterval' = FALSE
  /\ sockets' = [k \in DOMAIN sockets |->
                   IF k = ws THEN CloseSocket(sockets[k]) ELSE sockets[k]]
  /\ ws' = 0
  /\ reconnectAttempts' = 0
  /\ tout' = NoClientOut
  /\ history' = [history EXCEPT !.sinceReset = 0, !.disconnected = TRUE]
  /\ UNCHANGED <<isConnecting, staleReconnects, staleHeartbeats, messageQueue>>

\* A heartbeat interval fires: a heartbeat is sent when connected.
HeartbeatFires ==
  /\ heartbeatInterval \/ staleHeartbeats > 0
  /\ tout' = ClientOut("none",
                       IF IsConnected THEN <<"heartbeat">> ELSE <<>>, <<>>)
  /\ UNCHANGED <<sockets, ws, isConnecting, reconnectAttempts, reconnectTimeout,
                 staleReconnects, heartbeatInterval, staleHeartbeats,
                 messageQueue, history>>

\* WebSocketClient.sendOrQueue: sent when connected, otherwise queued, with
\* the warning of queueMessage when the oldest message was dropped.
SendOrQueue(m) ==
  /\ messageQueue' = IF IsConnected THEN messageQueue
                     ELSE QueueMessage(messageQueue, m)
  /\ tout' = ClientOut(IF IsConnected THEN "sent"
                       ELSE IF Len(messageQueue) + 1 > MaxQueueSize
                            THEN "dropped" ELSE "queued",
                       IF IsConnected THEN <<m>> ELSE <<>>, <<>>)
  /\ UNCHANGED <<sockets, ws, isConnecting, reconnectAttempts, reconnectTimeout,
                 staleReconnects, heartbeatInterval, staleHeartbeats,
                 history>>

NextClient ==
  \/ Connect /\ UNCHANGED <<vars, cacheVars, discovery, device, server>>
  \/ \E s \in 1..MaxSockets : SocketOpen(s) /\ UNCHANGED <<vars, cacheVars, discovery, device, server>>
  \/ \E s \in 1..MaxSockets : SocketError(s) /\ UNCHANGED <<vars, cacheVars, discovery, device, server>>
  \/ \E s \in 1..MaxSockets, code \in CloseCodes :
       SocketClosed(s, code) /\ UNCHANGED <<vars, cacheVars, discovery, device, server>>
  \/ \E s \in 1..MaxSockets : ConnectTimeout(s) /\ UNCHANGED <<vars, cacheVars, discovery, device, server>>
  \/ \E stale \in BOOLEAN : ReconnectFires(stale) /\ UNCHANGED <<vars, cacheVars, discovery, device, server>>
  \/ Disconnect /\ UNCHANGED <<vars, cacheVars, discovery, device, server>>
  \/ HeartbeatFires /\ UNCHANGED <<vars, cacheVars, discovery, device, server>>
  \/ \E m \in Messages : SendOrQueue(m) /\ UNCHANGED <<vars, cacheVars, discovery, device, server>>

SpecClient == Init /\ [][NextClient]_clientVars

\* ------------------------------------------------------------ discovery
\* discoverServer is called: the explicit address is probed if one is
\* configured, otherwise the strategies are entered.
DiscoverServer ==
  /\ discovery.state = "idle"
  /\ discovery' \in Probing(
       IF discovery.config.explicit
       THEN [discovery EXCEPT
               !.state = "explicit", !.strategy = 1, !.begun = discovery.elapsed,
               !.started = <<Started(Strategies[1], discovery.elapsed,
                                     discovery.config.discoveryTimeout)>>]
       ELSE AfterExplicit(discovery))

\* A second passes while probes are awaited; none outlives its timeout, and
\* a strategy is not awaited beyond the timeout it races against.
TickDiscovery ==
  /\ discovery.state \in {"explicit", "strategy"}
  /\ discovery.elapsed < Deadline(discovery)
  /\ discovery' = [discovery EXCEPT !.elapsed = @ + 1]

\* testExplicitServer settles and its result is not looked at.
ExplicitSettlesUnseen ==
  /\ discovery.state = "explicit"
  /\ discovery.elapsed = SettledAt(discovery)
  /\ discovery' \in Probing(AfterExplicit(discovery))

\* testExplicitServer settles: with the server when the address answered,
\* with null on an error or the probe timeout.
ExplicitSettles ==
  /\ discovery.state = "explicit"
  /\ discovery.elapsed = SettledAt(discovery)
  /\ discovery' \in Probing(
       IF discovery.probes[1].answers
       THEN [Return(discovery, Strategies[1]) EXCEPT
               !.server = discovery.probes[1]]
       ELSE AfterExplicit(discovery))

\* The awaited strategy settles, every probe of it having settled, before
\* the timeout it races against: with its fastest candidate, or with null
\* when none answered.
StrategySettles ==
  /\ discovery.state = "strategy"
  /\ discovery.elapsed = SettledAt(discovery)
  /\ LET result == FastestSuccessful(discovery.probes) IN
       discovery' \in Probing(
         IF result # NoServer
         THEN [Return(discovery, Strategies[discovery.strategy]) EXCEPT
                 !.server = result]
         ELSE EnterLoop(discovery, discovery.strategy + 1))

\* The timeout of createTimeoutPromise wins the race: null, and the loop
\* goes on.
StrategyTimesOut ==
  /\ discovery.state = "strategy"
  /\ discovery.elapsed = discovery.begun + discovery.remainingTime
  /\ discovery' \in Probing(EnterLoop(discovery, discovery.strategy + 1))

\* Every configuration, and every set of strategies with a candidate that
\* answers.
InitDiscovery ==
  /\ BridgeInit
  /\ maxAge = 1
  /\ service = "screenshot"
  /\ CacheInit
  /\ ClientInit
  /\ DeviceInit
  /\ ServerInit
  /\ \E config \in DiscoveryConfigs, responsive \in SUBSET Range(Strategies) :
       discovery = IdleDiscovery(config, responsive)

NextDiscovery ==
  \/ DiscoverServer /\ UNCHANGED <<vars, cacheVars, clientVars, device, server>>
  \/ TickDiscovery /\ UNCHANGED <<vars, cacheVars, clientVars, device, server>>
  \/ ExplicitSettles /\ UNCHANGED <<vars, cacheVars, clientVars, device, server>>
  \/ StrategySettles /\ UNCHANGED <<vars, cacheVars, clientVars, device, server>>
  \/ StrategyTimesOut /\ UNCHANGED <<vars, cacheVars, clientVars, device, server>>

SpecDiscovery == InitDiscovery /\ [][NextDiscovery]_discovery

\* ----------------------------------------------------------- the provider
\* initializeSDK reaches webSocketClient.connect(serverUrl).
InitializeSDK ==
  /\ device.socket = "none"
  /\ device' = [device EXCEPT !.socket = "connecting", !.via = "connect",
                              !.sent = <<>>]

\* ws.onopen.  The connect of initializeSDK resolves: setIsConnected(true),
\* and the message effect registers its handlers.  A reconnect resolves: the
\* reconnect handlers registered at that moment are called.
DeviceSocketOpen ==
  /\ device.socket = "connecting"
  /\ device' =
       [device EXCEPT
          !.socket = "open",
          !.reconnectAttempts = 0,
          !.initialized = @ \/ device.via = "connect",
          !.isConnected = IF device.via = "connect" THEN TRUE
                          ELSE device.listening \/ device.isConnected,
          !.listening = IF device.via = "connect" THEN TRUE
                        ELSE device.listening,
          !.sent = <<>>]

\* ws.onclose with the given code: the disconnect handlers registered are
\* called, handleDisconnect sets isConnected to false and the cleanup of the
\* message effect removes all listeners; the effect then registers none.
\* An abnormal close below the cap schedules a reconnect.
DeviceSocketClosed(code) ==
  /\ device.socket \in {"connecting", "open"}
  /\ device' =
       [device EXCEPT
          !.socket = "closed",
          !.isConnected = IF device.listening THEN FALSE ELSE @,
          !.listening = FALSE,
          !.reconnectAttempts =
             IF code # 1000 /\ @ < MaxReconnectAttempts THEN @ + 1 ELSE @,
          !.reconnectTimeout =
             code # 1000 /\ device.reconnectAttempts < MaxReconnectAttempts,
          !.sent = <<>>]

\* The reconnect timer fires: connect(url).
DeviceReconnectFires ==
  /\ device.reconnectTimeout
  /\ device' = [device EXCEPT !.reconnectTimeout = FALSE,
                              !.socket = "connecting", !.via = "reconnect",
                              !.sent = <<>>]

\* ws.onmessage with a request of the bridge: every message handler that is
\* registered is called, and handleMessage awaits its collaborator.
ReceiveRequest(request) ==
  /\ device.socket = "open"
  /\ request \notin device.handling
  /\ device' = [device EXCEPT
                  !.handling = IF device.listening THEN @ \cup {request} ELSE @,
                  !.sent = <<>>]

\* takeScreenshot or getContext settles for a request: the response is sent,
\* or the error envelope from the catch block; send throws when the socket
\* is not open, and then nothing is sent.
CollaboratorSettles(request, ok) ==
  /\ request \in device.handling
  /\ device' = [device EXCEPT
                  !.handling = @ \ {request},
                  !.sent = IF device.socket = "open"
                           THEN <<DeviceAnswer(request, ok)>> ELSE <<>>]

NextDevice ==
  \/ InitializeSDK /\ UNCHANGED <<vars, cacheVars, clientVars, discovery, server>>
  \/ DeviceSocketOpen /\ UNCHANGED <<vars, cacheVars, clientVars, discovery, server>>
  \/ \E code \in CloseCodes :
       DeviceSocketClosed(code) /\ UNCHANGED <<vars, cacheVars, clientVars, discovery, server>>
  \/ DeviceReconnectFires /\ UNCHANGED <<vars, cacheVars, clientVars, discovery, server>>
  \/ \E request \in DeviceRequests :
       ReceiveRequest(request) /\ UNCHANGED <<vars, cacheVars, clientVars, discovery, server>>
  \/ \E request \in DeviceRequests, ok \in BOOLEAN :
       CollaboratorSettles(request, ok)
         /\ UNCHANGED <<vars, cacheVars, clientVars, discovery, server>>

SpecDevice == Init /\ [][NextDevice]_device

\* ------------------------------------------------------------ properties
Pending(k) == requests[k].outcome = "pending"

HasEntry(k) == \E i \in Ids : pendingRequests[i] = k

\* Some request issued under id i has timed out.
TimedOut(i) ==
  \E k \in DOMAIN requests : requests[k].outcome = "Timeout" /\ requests[k].id = i

\* The pending requests issued to connection c.
PendingOf(c) == {k \in DOMAIN requests : Pending(k) /\ requests[k].clientId = c}

ResponseEnvelopes == {e \in Envelopes : e.type \in ResponseTypes}

RequestEnvelopes == {e \in Envelopes : e.type \in RequestTypes}

\* The reply of LiveContextProvider when handling a request fails: an ERROR
\* envelope that echoes the id of the request and refers to no other id.
DeviceErrorEnvelopes ==
  {e \in Envelopes : e.type = "error" /\ e.dataOrig = NoId /\ e.errOrig = NoId}

UnregisteredEnvelopes == {e \in Envelopes : e.type \notin Processors}

Targets == Clients \cup {NoClient}

\* C1: a response envelope carrying id i resolves only the pending request
\* whose id is i; every other pending request stays pending with its entry
\* and its timer untouched, whatever other fields the response carries.
C1_ResponseResolvesOnlyItsId ==
  [][\A c \in Clients, env \in ResponseEnvelopes :
       Message(c, env) =>
         /\ \A i \in Ids \ {env.id} : pendingRequests'[i] = pendingRequests[i]
         /\ \A k \in DOMAIN requests :
              requests[k].id # env.id => requests'[k] = requests[k]]_vars

\* C2: when connection c is reported disconnected, exactly the pending
\* requests issued to c are settled, as Disconnected, and have no table entry
\* afterwards; every other request and its entry are left as they were.
C2_DisconnectSettlesOwned ==
  [][\A c \in Clients :
       SocketClose(c) =>
         /\ out'.settled = [j \in 1..Cardinality(PendingOf(c)) |-> "Disconnected"]
         /\ \A k \in DOMAIN requests :
              IF k \in PendingOf(c)
              THEN /\ requests'[k] = Settled
                   /\ \A i \in Ids : pendingRequests'[i] # k
              ELSE /\ requests'[k] = requests[k]
                   /\ \A i \in Ids :
                        pendingRequests[i] = k => pendingRequests'[i] = k]_vars

\* C3: a pending request keeps its timer; when the timer fires the request
\* fails with Timeout and its table entry is removed; a response carrying the
\* id of a request that timed out, while no request is in the table under
\* that id, is ignored: it settles nothing and changes no entry.
C3_TimeoutThenIgnored ==
  /\ [](\A k \in DOMAIN requests : Pending(k) => requests[k].armed)
  /\ [][\A idx \in 1..MaxReq :
          Timeout(idx) =>
            /\ out'.settled = <<"Timeout">>
            /\ requests'[idx].outcome = "Timeout" /\ ~requests'[idx].armed
            /\ pendingRequests'[requests[idx].id] = 0
            /\ \A i \in Ids : pendingRequests'[i] # idx]_vars
  /\ [][\A c \in Clients, env \in ResponseEnvelopes :
          (TimedOut(env.id) /\ pendingRequests[env.id] = 0 /\ Message(c, env)) =>
            /\ out'.settled = <<>>
            /\ UNCHANGED <<requests, pendingRequests>>]_vars

\* C4: every issued request makes at most one terminal transition.  A settled
\* request has no timer and no table entry and never changes again; and
\* whichever comes first of a response carrying its id, its timer and the
\* disconnect of its owner settles a pending request.
C4_OneTerminalTransition ==
  /\ [](\A k \in DOMAIN requests :
          ~Pending(k) => ~requests[k].armed /\ ~HasEntry(k))
  /\ [][\A k \in DOMAIN requests : ~Pending(k) => requests'[k] = requests[k]]_vars
  /\ [][\A idx \in 1..MaxReq : Timeout(idx) => ~Pending(idx)']_vars
  /\ [][\A c \in Clients :
          SocketClose(c) => \A k \in PendingOf(c) : ~Pending(k)']_vars
  /\ [][\A c \in Clients, env \in ResponseEnvelopes :
          (env.dataOrig = NoId /\ Message(c, env)) =>
            \A k \in DOMAIN requests :
              (Pending(k) /\ requests[k].id = env.id) => ~Pending(k)']_vars

\* C5: an ERROR envelope whose id is the id of a pending request, as the
\* device sends it when handling the request fails, settles that request at
\* once and removes its entry.
C5_ErrorResolvesById ==
  [][\A c \in Clients, env \in DeviceErrorEnvelopes :
       (pendingRequests[env.id] # 0 /\ Message(c, env)) =>
         /\ out'.settled # <<>>
         /\ ~Pending(pendingRequests[env.id])'
         /\ pendingRequests'[env.id] = 0]_vars

\* C6: when sendToClient returns false for a request being issued (by
\* requestScreenshot / requestContext, or by forwarding an inbound request),
\* the request fails at once with SendFailed, nothing is sent, its timer is
\* cancelled and no table entry is left for it, under its id or otherwise.
\* (An API call is a step with a result; a forwarded request a step that
\* emitted the envelope from a sender that cannot be sent to.)
C6_SendFailure ==
  /\ [][out'.result # "none" =>
          \A type \in RequestTypes, target \in Targets, id \in Ids :
            (/\ TargetClientId(target) # NoClient
             /\ ~SendToClient(TargetClientId(target))
             /\ Request(type, target, id)) =>
              /\ out'.result = "SendFailed"
              /\ out'.settled = <<"SendFailed">>
              /\ out'.sent = <<>>
              /\ Len(requests') = Len(requests) + 1
              /\ requests'[Len(requests')] = Settled
              /\ pendingRequests'[id] = 0
              /\ \A i \in Ids : pendingRequests'[i] # Len(requests')]_vars
  /\ [][out'.emitted # <<>> =>
          \A c \in {out'.emitted[1].c} \ {x \in Clients : SendToClient(x)},
             env \in RequestEnvelopes :
            Message(c, env) =>
              /\ out'.settled = <<"SendFailed">>
              /\ out'.sent = <<>>
              /\ Len(requests') = Len(requests) + 1
              /\ requests'[Len(requests')] = Settled
              /\ pendingRequests'[env.id] = 0
              /\ \A i \in Ids : pendingRequests'[i] # Len(requests')]_vars

\* A requestScreenshot / requestContext call has just failed with SendFailed
\* while an earlier request is pending in the table.
C6_Witness ==
  /\ out.result = "SendFailed"
  /\ out.settled = <<"SendFailed">>
  /\ Len(requests) = 2
  /\ requests[2] = Settled
  /\ Pending(1) /\ HasEntry(1)

\* C7: a requestScreenshot, requestContext or sendCommand call whose target
\* is no tracked connection (an unknown id, or none given while no connection
\* is tracked) fails with DeviceUnavailable, sends nothing and leaves the
\* requests and the table as they were.
C7_NoTargetUnavailable ==
  /\ [][\A type \in RequestTypes, target \in Targets, id \in Ids :
          (~Tracked(TargetClientId(target)) /\ Request(type, target, id)) =>
            /\ out'.result = "DeviceUnavailable"
            /\ out'.sent = <<>>
            /\ UNCHANGED <<requests, pendingRequests>>]_vars
  /\ [][\A target \in Targets :
          (~Tracked(TargetClientId(target)) /\ SendCommand(target)) =>
            /\ out'.result = "DeviceUnavailable"
            /\ out'.sent = <<>>
            /\ UNCHANGED <<requests, pendingRequests>>]_vars

\* C8 as stated: every inbound envelope of a type without a registered
\* processor, received on a tracked connection, is answered with exactly one
\* ERROR UNKNOWN_MESSAGE_TYPE to that connection and changes no request.
C8_UnregisteredTypeGetsError ==
  [][\A c \in Clients, env \in UnregisteredEnvelopes :
       (Tracked(c) /\ Message(c, env)) =>
         /\ out'.sent = <<Msg(c, "error", "UNKNOWN_MESSAGE_TYPE")>>
         /\ UNCHANGED <<requests, pendingRequests>>]_vars

\* C8 amended: every inbound envelope other than a heartbeat, of a type
\* without a registered processor, received on a tracked connection, is
\* answered with exactly one ERROR UNKNOWN_MESSAGE_TYPE to that connection
\* and changes no request.  (Such a step emits the envelope to the 'message'
\* listeners, so only steps that emitted one are looked at.)
C8_UnregisteredExceptHeartbeat ==
  [][out'.emitted # <<>> =>
       \A c \in {out'.emitted[1].c} \cap Range(clients),
          env \in {e \in UnregisteredEnvelopes : e.type # "heartbeat"} :
         Message(c, env) =>
           /\ out'.sent = <<Msg(c, "error", "UNKNOWN_MESSAGE_TYPE")>>
           /\ out'.settled = <<>>
           /\ UNCHANGED <<requests, pendingRequests>>]_vars

\* An envelope from c1 has just been answered with the UNKNOWN_MESSAGE_TYPE
\* error while a request is pending in the table.
C8_Witness ==
  /\ out.emitted = Emit("message", "c1")
  /\ out.sent = <<Msg("c1", "error", "UNKNOWN_MESSAGE_TYPE")>>
  /\ \E k \in DOMAIN requests : Pending(k) /\ HasEntry(k)

\* C9: a frame that cannot be decoded, received on a tracked connection, is
\* answered with one ERROR INVALID_MESSAGE to the sender; nothing is emitted
\* to the listeners and the connection table is left as it was.
C9_InvalidFrame ==
  [][\A c \in Clients :
       (Tracked(c) /\ BadMessage(c)) =>
         /\ out'.sent = <<Msg(c, "error", "INVALID_MESSAGE")>>
         /\ out'.emitted = <<>>
         /\ UNCHANGED <<clients, socket, requests, pendingRequests>>]_vars

\* c1 has just been sent the INVALID_MESSAGE error and is still tracked, next
\* to c2.
C9_Witness ==
  /\ out = Out(<<Msg("c1", "error", "INVALID_MESSAGE")>>, <<>>, <<>>, "none")
  /\ clients = <<"c2", "c1">>

\* C10: a run of the heartbeat callback closes and drops every tracked
\* connection last heard of more than twice the heartbeat interval ago, and
\* keeps every other tracked connection, its socket untouched.
C10_HeartbeatDropsExactlyTheDead ==
  [][Heartbeat =>
       \A c \in Range(clients) :
         IF age[c] > 2 * HeartbeatInterval
         THEN c \notin Range(clients') /\ socket'[c] = "closing"
         ELSE c \in Range(clients') /\ socket'[c] = socket[c]]_vars

\* The heartbeat callback has just run: c1, silent for longer than twice the
\* interval, is closed and dropped; c2, silent for exactly twice the
\* interval, is kept.
C10_Witness ==
  /\ ~beatDue
  /\ socket["c1"] = "closing" /\ ~Tracked("c1") /\ age["c1"] > 2 * HeartbeatInterval
  /\ socket["c2"] = "open" /\ Tracked("c2") /\ age["c2"] = 2 * HeartbeatInterval

\* C11 as stated: every decodable envelope received on a tracked connection,
\* of whatever type, is emitted exactly once to the 'message' listeners,
\* with the id of that connection.
C11_EveryEnvelopeEmitted ==
  [][\A c \in Clients, env \in Envelopes :
       (Tracked(c) /\ ConnMessage(c, env)) =>
         out'.emitted = Emit("message", c)]_vars

\* C11 amended: every decodable envelope other than a heartbeat, received on
\* a tracked connection, is emitted exactly once to the 'message' listeners
\* with the id of that connection; a heartbeat is acknowledged to its sender
\* and emitted to nobody.
C11_EveryEnvelopeButHeartbeatEmitted ==
  [][\A c \in Clients, env \in Envelopes :
       (Tracked(c) /\ ConnMessage(c, env)) =>
         IF env.type = "heartbeat"
         THEN out'.emitted = <<>> /\ out'.sent = <<Msg(c, "heartbeat_ack", "-")>>
         ELSE out'.emitted = Emit("message", c) /\ out'.sent = <<>>]_vars

\* An envelope from c1, tracked next to c2, has just been emitted to the
\* listeners.
C11_Witness ==
  /\ out = Out(<<>>, Emit("message", "c1"), <<>>, "none")
  /\ clients = <<"c2", "c1">>
  /\ age["c1"] = 0

\* The keys of the entries of a cache.
Keys(cache) == {cache[i].key : i \in DOMAIN cache}

\* A service awaits a fetch for this key.
InFlight(of, key) ==
  \E c \in calls :
    /\ c.service = of
    /\ key = IF of = "context" THEN DefaultKey(c.target)
             ELSE GetCacheKey(c.target, c.options)

\* C12 as stated: once a requestScreenshot(target, options) call has fetched
\* and returned a frame, a call with the same target and options that starts
\* less than maxAge later asks the device for nothing and returns that frame.
C12_SecondCallServedFromCache ==
  [][\A t \in CacheTargets, o \in Options :
       (/\ completed # NoFrame
        /\ completed.target = t /\ completed.options = o
        /\ now - completed.at < maxAge
        /\ RequestScreenshot(t, o)) =>
         /\ cout' = CacheOut("hit", completed.payload)
         /\ UNCHANGED <<calls, fetched>>]_cacheVars

\* C12 amended: a requestScreenshot(target, options) call that starts while
\* the cache holds, under the key of (target, options), a frame stored less
\* than maxAge ago asks the device for nothing, returns that frame and
\* leaves the cache as it is.
C12_ServedWhileStillCached ==
  [][\A t \in CacheTargets, o \in Options :
       LET i == IndexOf(shots, GetCacheKey(t, o)) IN
         (/\ i # 0
          /\ now - shots[i].timestamp < maxAge
          /\ RequestScreenshot(t, o)) =>
           /\ cout' = CacheOut("hit", shots[i].id)
           /\ UNCHANGED <<shots, calls, fetched>>]_cacheVars

\* The frame the first call fetched has just been returned to a later call,
\* at a later clock reading, without a second fetch.
C12_Witness ==
  /\ cout = CacheOut("hit", 1)
  /\ completed.payload = 1 /\ now > completed.at
  /\ fetched = 1 /\ calls = {}
  /\ Len(shots) = 1 /\ shots[1].id = 1

\* C13: a call that finds a fetch for its key in flight issues no fetch of
\* its own, in either service.
C13_OneFetchPerKeyInFlight ==
  /\ [][\A t \in CacheTargets, o \in Options :
          (InFlight("screenshot", GetCacheKey(t, o)) /\ RequestScreenshot(t, o)) =>
            cout'.result # "fetch"]_cacheVars
  /\ [][\A t \in ContextTargets, o \in ContextOptions :
          (InFlight("context", DefaultKey(t)) /\ RequestContext(t, o)) =>
            cout'.result # "fetch"]_cacheVars

\* C14: storing a frame in a cache at capacity evicts exactly one entry, one
\* of smallest timestamp, and a hit leaves the cache as it is.
C14_EvictsOldestAtCapacity ==
  /\ [][\A call \in Calls("screenshot") :
          (Len(shots) >= MaxScreenshots /\ ScreenshotResponse(call, TRUE)) =>
            \E j \in DOMAIN shots :
              /\ \A k \in DOMAIN shots : shots[k].timestamp >= shots[j].timestamp
              /\ Keys(shots') = (Keys(shots) \ {shots[j].key})
                                  \cup {GetCacheKey(call.target, call.options)}]_cacheVars
  /\ [][cout'.result = "hit" => shots' = shots]_cacheVars

\* C15: the frame cache never holds more than maxScreenshots entries.
C15_WithinCapacity == Len(shots) <= MaxScreenshots

\* C16: a call is served from the cache exactly when the entry under its key
\* is younger than the TTL -- maxAge for frames, min(maxAge, ceiling) for
\* contexts; otherwise requestScreenshot and requestContext ask the device
\* and getLatestContext misses.
C16_ServedOnlyWithinTTL ==
  /\ [][\A t \in CacheTargets, o \in Options :
          LET i == IndexOf(shots, GetCacheKey(t, o)) IN
            RequestScreenshot(t, o) =>
              IF i # 0 /\ now - shots[i].timestamp < maxAge
              THEN cout' = CacheOut("hit", shots[i].id)
              ELSE cout'.result = "fetch"]_cacheVars
  /\ [][\A t \in ContextTargets, o \in ContextOptions :
          LET i == IndexOf(contexts, DefaultKey(t)) IN
            RequestContext(t, o) =>
              IF i # 0 /\ now - contexts[i].timestamp < Min(maxAge, SnapshotMaxAge)
              THEN cout'.result = "hit" /\ UNCHANGED <<calls, fetched>>
              ELSE cout'.result = "fetch"]_cacheVars
  /\ [][\A t \in ContextTargets :
          LET i == IndexOf(contexts, DefaultKey(t)) IN
            GetLatestContext(t) =>
              IF i # 0 /\ now - contexts[i].timestamp < Min(maxAge, SnapshotMaxAge)
              THEN cout'.result = "hit"
              ELSE cout'.result = "miss"]_cacheVars

\* A requestScreenshot call has just asked the device although the cache
\* holds the frame under its key: the frame is exactly maxAge old.
C16_Witness ==
  /\ cout.result = "fetch"
  /\ Len(shots) = 1 /\ now - shots[1].timestamp = maxAge
  /\ \E c \in calls : c.id = 2 /\ GetCacheKey(c.target, c.options) = shots[1].key

\* C17: after a sweep a cache holds no entry older than its TTL, and every
\* entry that was not older than the TTL is still there, in place.
C17_SweepRemovesExactlyTheExpired ==
  /\ [][CleanupExpiredScreenshots =>
          /\ \A i \in DOMAIN shots' : now - shots'[i].timestamp <= maxAge
          /\ shots' = SelectSeq(shots, LAMBDA e : now - e.timestamp <= maxAge)]_cacheVars
  /\ [][CleanupExpiredContexts =>
          /\ \A i \in DOMAIN contexts' :
               now - contexts'[i].timestamp <= Min(maxAge, SnapshotMaxAge)
          /\ contexts' = SelectSeq(contexts,
               LAMBDA e : now - e.timestamp <= Min(maxAge, SnapshotMaxAge))]_cacheVars

\* A sweep of the context cache has just deleted the one entry, which was
\* older than the 30 s ceiling though not older than the configured maxAge.
C17_Witness ==
  /\ service = "context"
  /\ cout = CacheOut("swept", 1)
  /\ contexts = <<>>
  /\ maxAge > SnapshotMaxAge /\ now <= maxAge

\* C18: a requestContext call is never served a cached context that was
\* fetched and processed for other options than its own.
C18_EntryPerOptions ==
  [][\A t \in ContextTargets, o \in ContextOptions :
       (RequestContext(t, o) /\ cout'.result = "hit") =>
         contexts[IndexOf(contexts, DefaultKey(t))].options \in {o, "tracked"}]_cacheVars

\* C19: the interaction list of every cached context holds at most the 50
\* (here MaxInteractions) events trackInteraction keeps.
C19_InteractionsCapped ==
  \A i \in DOMAIN contexts : Len(contexts[i].interactions) <= MaxInteractions

\* C20: a connect(url) call made while the transport is connected or
\* connecting -- its socket open or still shaking hands, or a connect() under
\* way -- makes no socket, changes nothing of the transport and resolves at
\* once.
C20_ConnectIsNoOp ==
  [][((isConnecting \/ IsConnected \/ IsConnectingState) /\ Connect) =>
       /\ tout'.result = "resolved"
       /\ UNCHANGED <<sockets, ws, isConnecting, reconnectAttempts,
                      reconnectTimeout, staleReconnects, heartbeatInterval,
                      staleHeartbeats, messageQueue>>]_clientVars

\* C21: the sendOrQueue buffer never holds more than maxQueueSize messages;
\* a message queued while the buffer is full takes the place of the oldest
\* one, and the messages left keep their order, the new one last.
C21_QueueBoundedDropOldest ==
  [][/\ Len(messageQueue') <= MaxQueueSize
     /\ \A m \in Messages :
          (~IsConnected /\ SendOrQueue(m)) =>
            messageQueue' = IF Len(messageQueue) = MaxQueueSize
                            THEN Append(Tail(messageQueue), m)
                            ELSE Append(messageQueue, m)]_clientVars

\* A message went into a full buffer and the oldest was dropped.
C21_Witness ==
  /\ tout.result = "dropped"
  /\ Len(messageQueue) = MaxQueueSize
  /\ messageQueue[1] # messageQueue[2]

\* C22: when the socket of a connect or reconnect opens, every message
\* buffered by sendOrQueue is written in the order it was queued, in the open
\* handler itself and so before any later message, and the buffer is empty
\* afterwards.
C22_OpenFlushesQueueInOrder ==
  [][\A s \in 1..MaxSockets :
       SocketOpen(s) => /\ tout'.sent = messageQueue
                        /\ messageQueue' = <<>>]_clientVars

\* The reconnect timers that are scheduled and have not fired.
PendingReconnects ==
  staleReconnects + (IF reconnectTimeout = "scheduled" THEN 1 ELSE 0)

\* C23: a close with the clean code 1000 schedules no reconnect; a close with
\* another code schedules exactly one, counted as one more attempt, as long as
\* the attempts are below the cap, and none once the cap is reached.
C23_OnlyAbnormalCloseReconnects ==
  [][\A s \in 1..MaxSockets, code \in CloseCodes :
       SocketClosed(s, code) =>
         IF code # 1000 /\ reconnectAttempts < MaxReconnectAttempts
         THEN /\ PendingReconnects' = PendingReconnects + 1
              /\ reconnectAttempts' = reconnectAttempts + 1
         ELSE /\ PendingReconnects' = PendingReconnects
              /\ reconnectAttempts' = reconnectAttempts]_clientVars

\* An abnormal close of the open socket has scheduled the first reconnect.
C23_Witness ==
  /\ tout.emitted = <<"disconnect">>
  /\ reconnectTimeout = "scheduled"
  /\ reconnectAttempts = 1
  /\ ws # 0 /\ sockets[ws].state = "closed"

\* min(1000 * 2^(n-1), 30000) ms for n = 1, 2, ..., in seconds.
BackoffTable == <<1, 2, 4, 8, 16, 30, 30, 30>>

\* C24 as stated: the n-th reconnect attempt counted since the last
\* successful open is scheduled with delay min(1000 * 2^(n-1), 30000) ms, the
\* delay never exceeds 30000 ms, and the attempt counter is 0 after every
\* open.
C24_DelayOfNthAttemptSinceOpen ==
  [][/\ \A n \in DOMAIN BackoffTable :
          ReconnectDelay(n) = BackoffTable[n] /\ ReconnectDelay(n) <= 30
     /\ history'.sinceOpen = history.sinceOpen + 1 =>
          tout'.delay = BackoffTable[history'.sinceOpen]
     /\ \A s \in 1..MaxSockets :
          SocketOpen(s) => reconnectAttempts' = 0]_clientVars

\* C24, amended: the same with the attempts counted since the last
\* successful open or call of disconnect(), whichever came last.
C24_DelayOfNthAttemptSinceReset ==
  [][/\ \A n \in DOMAIN BackoffTable :
          ReconnectDelay(n) = BackoffTable[n] /\ ReconnectDelay(n) <= 30
     /\ history'.sinceReset = history.sinceReset + 1 =>
          tout'.delay = BackoffTable[history'.sinceReset]
     /\ \A s \in 1..MaxSockets :
          SocketOpen(s) => reconnectAttempts' = 0]_clientVars

\* The second attempt in a row has been scheduled, two seconds ahead.
C24_Witness ==
  /\ history.sinceReset = 2
  /\ tout.delay = 2
  /\ reconnectTimeout = "scheduled"

\* C25 as stated: between two successful opens at most maxReconnectAttempts
\* reconnect attempts are scheduled; once the cap is reached an abnormal
\* close schedules nothing, makes no socket, and the transport stays
\* disconnected.
C25_AttemptsCappedSinceOpen ==
  [][/\ history'.sinceOpen <= MaxReconnectAttempts
     /\ \A s \in 1..MaxSockets :
          (reconnectAttempts = MaxReconnectAttempts /\ SocketClosed(s, 1006)) =>
            /\ PendingReconnects' = PendingReconnects
            /\ reconnectAttempts' = reconnectAttempts
            /\ Len(sockets') = Len(sockets)
            /\ sockets'[s].state = "closed"]_clientVars

\* C25, amended: the same with the attempts counted since the last
\* successful open or call of disconnect(), whichever came last.
C25_AttemptsCappedSinceReset ==
  [][/\ history'.sinceReset <= MaxReconnectAttempts
     /\ \A s \in 1..MaxSockets :
          (reconnectAttempts = MaxReconnectAttempts /\ SocketClosed(s, 1006)) =>
            /\ PendingReconnects' = PendingReconnects
            /\ reconnectAttempts' = reconnectAttempts
            /\ Len(sockets') = Len(sockets)
            /\ sockets'[s].state = "closed"]_clientVars

\* The attempts are used up, the last socket has closed, nothing is
\* scheduled and no socket is left connecting or open.
C25_Witness ==
  /\ history.sinceReset = MaxReconnectAttempts
  /\ reconnectAttempts = MaxReconnectAttempts
  /\ tout.emitted = <<"disconnect">>
  /\ tout.delay = 0
  /\ PendingReconnects = 0
  /\ \A k \in DOMAIN sockets : sockets[k].state = "closed"

\* C26: from a call of disconnect() until connect() is called again the
\* transport sends no heartbeat, makes no socket, and no reconnect is
\* scheduled or fires.
C26_QuietAfterDisconnect ==
  [][(history.disconnected /\ history'.disconnected) =>
       /\ "heartbeat" \notin Range(tout'.sent)
       /\ Len(sockets') = Len(sockets)
       /\ PendingReconnects' <= PendingReconnects
       /\ ~ \E stale \in BOOLEAN : ReconnectFires(stale)]_clientVars

\* C27: at every moment at most one socket of the transport is connecting
\* or open.
C27_AtMostOneLiveSocket ==
  Cardinality({k \in DOMAIN sockets :
                 sockets[k].state \in {"connecting", "open"}}) <= 1

\* C28: when an explicit address is configured and answers its probe,
\* discoverServer returns that address and starts no probe of another
\* strategy.
C28_ExplicitAnswerEndsDiscovery ==
  (discovery.config.explicit /\ "explicit" \in discovery.responsive) =>
    /\ \A i \in DOMAIN discovery.started :
         discovery.started[i].strategy = "explicit"
    /\ discovery.state = "returned" => discovery.result = "explicit"

\* The explicit address answered after a second, with candidates of the
\* default ports that would have answered too.
C28_Witness ==
  /\ discovery.config.explicit
  /\ {"explicit", "default"} \subseteq discovery.responsive
  /\ discovery.state = "returned"
  /\ discovery.result = "explicit"
  /\ discovery.elapsed > 0

\* C29: under every configuration, when no candidate answers, discoverServer
\* returns null no later than 1.5 times the budget discoveryTimeout after it
\* started.
C29_NotFoundWithinBudget ==
  (discovery.responsive = {} /\ discovery.state = "returned") =>
    /\ discovery.result = "null"
    /\ 2 * discovery.elapsed <= 3 * discovery.config.discoveryTimeout

\* The place of a strategy in the order of the strategies.
PlaceOf(strategy) == CHOOSE k \in DOMAIN Strategies : Strategies[k] = strategy

\* C30: the strategies are started in their order, each only when every one
\* started before it found nothing, discovery has not returned, and the
\* budget left at that moment is greater than 0; when an await ends without
\* a server and the budget is used up, nothing more is started and
\* discoverServer returns null.
C30_StrategiesInOrderWithinBudget ==
  [][/\ discovery'.started # discovery.started =>
          LET last == discovery'.started[Len(discovery'.started)] IN
            /\ discovery'.started = Append(discovery.started, last)
            /\ \A i \in DOMAIN discovery.started :
                 /\ PlaceOf(discovery.started[i].strategy) < PlaceOf(last.strategy)
                 /\ discovery.started[i].strategy \notin discovery.responsive
            /\ discovery.result = "pending" /\ discovery'.result = "pending"
            /\ last.at = discovery.elapsed
            /\ last.remaining = discovery.config.discoveryTimeout - discovery.elapsed
            /\ last.remaining > 0
     /\ ( /\ discovery.state \in {"explicit", "strategy"}
          /\ discovery'.state # discovery.state \/ discovery'.strategy # discovery.strategy
          /\ discovery'.result \in {"pending", "null"}
          /\ discovery.config.discoveryTimeout - discovery.elapsed <= 0 ) =>
          /\ discovery'.started = discovery.started
          /\ discovery'.state = "returned"
          /\ discovery'.result = "null"]_discovery

\* The default ports took their three seconds, the common ports were started
\* with the two seconds left of the budget and timed out; the subnet sweep
\* was not started and discovery returned null.
C30_Witness ==
  /\ discovery.state = "returned"
  /\ discovery.result = "null"
  /\ Len(discovery.started) = 2
  /\ discovery.started[1].strategy = "default"
  /\ discovery.started[2].strategy = "common"
  /\ discovery.started[2].remaining = 2
  /\ discovery.elapsed = discovery.config.discoveryTimeout

\* C31: when a strategy yields a result, the server discoverServer returns
\* is a candidate of that strategy whose probe succeeded, and no successful
\* probe of the strategy had a smaller response time.
C31_FastestResponderWins ==
  (discovery.state = "returned" /\ discovery.result # "null") =>
    /\ \E c \in DOMAIN discovery.probes : discovery.probes[c] = discovery.server
    /\ discovery.server.answers
    /\ \A c \in DOMAIN discovery.probes :
         discovery.probes[c].answers =>
           discovery.server.at <= discovery.probes[c].at

\* Two candidates of the default ports answered, the second one faster, and
\* the second one was returned.
C31_Witness ==
  /\ discovery.state = "returned"
  /\ discovery.result = "default"
  /\ discovery.probes[1].answers /\ discovery.probes[2].answers
  /\ discovery.probes[2].at < discovery.probes[1].at
  /\ discovery.server = discovery.probes[2]

\* C38: when a candidate of the strategy that was running has completed a
\* successful probe before the budget discoveryTimeout expired,
\* discoverServer returns a server and not null, whatever the other
\* candidates of the strategy do.
C38_SuccessfulProbeYieldsServer ==
  ( /\ discovery.state = "returned"
    /\ \E c \in DOMAIN discovery.probes :
         /\ discovery.probes[c].answers
         /\ discovery.begun + discovery.probes[c].at
              < discovery.config.discoveryTimeout ) =>
    discovery.result # "null"

\* C32: every response or error envelope the device sends in answer to a
\* request carries the id of that request, also when several requests are
\* handled at once and settle in any order.
C32_AnswerCarriesRequestId ==
  \A i \in DOMAIN device.sent : device.sent[i].id = device.sent[i].request.id

\* An answer has been sent while a request with another id is still being
\* handled.
C32_Witness ==
  /\ Len(device.sent) = 1
  /\ \E r \in device.handling : r.id # device.sent[1].id

\* C33: after an abnormal close of an established connection and a successful
\* automatic reconnect, the device reports itself connected and has its
\* message handler registered, so that it answers the requests it receives.
C33_ReconnectRestoresCommunication ==
  (device.initialized /\ device.socket = "open" /\ device.via = "reconnect")
    => (device.isConnected /\ device.listening)

\* C34: once stop() of the bridge has completed no timer remains scheduled:
\* not the heartbeat interval, not the cleanup interval of either cache, not
\* the deadline of any request.
C34_NoTimerAfterStop ==
  (~server.isRunning /\ ~server.stopping) =>
    /\ ~server.heartbeatInterval
    /\ ~server.screenshotCleanup
    /\ ~server.contextCleanup
    /\ \A k \in DOMAIN requests : ~requests[k].armed

\* The step has just emitted clientDisconnected for connection c.
Notified(c) == out.emitted = Emit("clientDisconnected", c)

\* C40: a connection that leaves the connection table (by the close of its
\* socket, by a heartbeat timeout or by the stop of the server) is notified
\* as disconnected: in the very step, or its socket is closing and the
\* notification follows eventually; and no connection is notified twice: the
\* notification is the step that closes its socket, and a closed socket
\* stays closed.
C40_RemovedIsNotifiedOnce ==
  /\ [][\A c \in Clients :
          (Tracked(c) /\ ~Tracked(c)') => (Notified(c)' \/ socket'[c] = "closing")]_vars
  /\ \A c \in Clients :
       (~Tracked(c) /\ socket[c] = "closing") ~> Notified(c)
  /\ [][\A c \in Clients :
          Notified(c)' => (socket[c] # "closed" /\ socket'[c] = "closed")]_vars
  /\ [][\A c \in Clients : socket[c] = "closed" => socket'[c] = "closed"]_vars

\* The server has been stopped, and a connection it dropped from the table
\* on stopping is now notified as disconnected.
C40_Witness ==
  /\ ~server.accepting
  /\ \E c \in Clients : Notified(c)

\* C40 (what follows the notification): no request is still pending on a
\* connection that has been notified as disconnected, its socket closed;
\* the requests pending on it were cancelled instead of left to their
\* deadline.
C40_NoneLeftPendingOnClosed ==
  \A k \in DOMAIN requests :
    Pending(k) => socket[requests[k].clientId] # "closed"

\* C35: an envelope that arrives on connection c resolves no pending request
\* owned by another connection: such a request is left as it was, with its
\* table entry.
C35_ResolvedOnlyByOwner ==
  [][\A c \in Clients, env \in ResponseEnvelopes \cup DeviceErrorEnvelopes :
       Message(c, env) =>
         \A k \in DOMAIN requests :
           (Pending(k) /\ requests[k].clientId # c) =>
             /\ requests'[k] = requests[k]
             /\ \A i \in Ids : pendingRequests[i] = k => pendingRequests'[i] = k]_vars

\* C36: requests pending at the same time have distinct ids, and each has
\* its own table entry.
C36_PendingHaveDistinctEntries ==
  \A k \in DOMAIN requests :
    Pending(k) =>
      /\ pendingRequests[requests[k].id] = k
      /\ \A j \in DOMAIN requests \ {k} :
           Pending(j) => requests[j].id # requests[k].id

\* C37: a buffered message leaves the buffer only by being sent or by the
\* drop-oldest overflow: a step that writes no frame and overflows nothing
\* leaves every buffered message in the buffer, in its place; in particular
\* a flush whose send fails keeps the failed message and those behind it.
C37_BufferedUntilSentOrDropped ==
  [][(tout'.sent = <<>> /\ tout'.result # "dropped") =>
       /\ Len(messageQueue') >= Len(messageQueue)
       /\ SubSeq(messageQueue', 1, Len(messageQueue)) = messageQueue]_clientVars

\* C39: whatever trackRouteChange and trackInteraction calls were made,
\* requestContext and getLatestContext serve from the cache no component
\* tree that was fetched from the device more than min(maxAge, ceiling) ago.
C39_TelemetryKeepsFetchedAge ==
  [][\A t \in ContextTargets :
       LET i == IndexOf(contexts, DefaultKey(t)) IN
         ((GetLatestContext(t) \/ \E o \in ContextOptions : RequestContext(t, o))
            /\ cout'.result = "hit" /\ contexts[i].options # "tracked") =>
           now - contexts[i].fetchedAt <= Min(maxAge, SnapshotMaxAge)]_cacheVars
====
